---- MODULE Spec2Model ----
(***************************************************************************)
(* A model of the multicast event containers of python-cs-events: the      *)
(* handler list of Event and Delegate (add, remove, contains, iterate,     *)
(* length), the synchronous invocation of Event, the lock-protected        *)
(* VolatileEvent, the keyed collections of containers (list, dictionary    *)
(* and their concurrent variants), the dictionary-backed event properties  *)
(* and the fan-out of AsyncEvent.                                          *)
(***************************************************************************)
EXTENDS Integers, Sequences, FiniteSets, TLC

(***************************************************************************)
(* Bounds of the model.                                                    *)
(***************************************************************************)
\* longest handler list of the container specification
MaxLen == 4
\* longest list a constructor is seeded with
MaxSeed == 2
\* longest handler list of the invocation specification
MaxInvLen == 3
\* length up to which threads add to a VolatileEvent
MaxVLen == 2
\* calls issued in a bounded run on a VolatileEvent
MaxCalls == 3
\* calls issued in a bounded run on a concurrent keyed collection
MaxKCalls == 3
\* longest handler list of a container of a keyed collection
MaxKLen == 2
\* the number of statements on event properties in a run
MaxPCalls == 3
\* the longest handler list of an AsyncEvent
MaxALen == 2

\* the number of statements on the event properties of a decorated class
MaxDCalls == 3
\* the number of instances constructed of the classes with event fields
MaxObjs == 2
\* the number of handlers subscribed to the event fields of the instances
MaxFSubs == 2

(***************************************************************************)
(* Handler objects.  "h1b" is an object distinct from "h1" that compares   *)
(* equal to it (two bound-method objects of one method, or two instances   *)
(* of a callable class whose __eq__ says so); "h2" is equal to itself      *)
(* only.                                                                   *)
(***************************************************************************)
Objects == {"h1", "h2", "h1b"}

\* the value an object's __eq__ compares
EqKey(x) == IF x = "h1b" THEN "h1" ELSE x

\* Python's `x is y`
PyIs(x, y) == x = y

\* Python's `x == y`
PyEq(x, y) == EqKey(x) = EqKey(y)

SeqsUpTo(S, n) == UNION {[1..k -> S] : k \in 0..n}

Range(s) == {s[i] : i \in 1..Len(s)}

Count(x, s) == Cardinality({i \in 1..Len(s) : s[i] = x})

\* list.insert(p - 1, x): x becomes the entry at position p
InsertAt(s, p, x) == SubSeq(s, 1, p - 1) \o <<x>> \o SubSeq(s, p, Len(s))

\* del list[i - 1]
DelAt(s, i) == SubSeq(s, 1, i - 1) \o SubSeq(s, i + 1, Len(s))

\* x in list: list.__contains__ accepts an entry that is x or equals x
ListContains(s, x) == \E i \in 1..Len(s) : PyIs(s[i], x) \/ PyEq(s[i], x)

VARIABLES
    cls,        \* the class of the container: "Event" or "Delegate"
    handlers,   \* Event.__handlers / Delegate.__invocation_list
    order,      \* ghost: order[i] is the rank, by time of addition, of entry i
    prev,       \* ghost: the handler list before the last operation
    op,         \* ghost: the last operation, its argument and its outcome
    pc,         \* Event.__call__: "idle", "loop" (between two handlers), "handler"
    snap,       \* Event.__call__: the list the for loop iterates
    idx,        \* Event.__call__: the number of entries the loop has taken
    args,       \* Event.__call__: the arguments of the invocation
    calls,      \* ghost: the calls made by the current (or last) invocation
    atStart,    \* ghost: the handler list when the invocation started
    result,     \* what the invoker of the last invocation observed
    sub,        \* ghost: per object, subscribed by a handler "cur"/"prev"/"no"
    unsub,      \* ghost: objects a handler detached during the invocation
    thrown,     \* ghost: the exception a handler raised, and at which call
    mutated,    \* ghost: the list was changed since the invocation started
    lock,       \* VolatileEvent._lock: "free" or the thread that holds it
    tpc,        \* per thread: the statement of VolatileEvent it is at
    frame,      \* per thread: the local variables of its calls
    budget,     \* the number of calls the threads of a bounded run may still issue
    elist,      \* EventHandlerList.__head: the entries, the newest first
    edict,      \* EventHandlerDict.__dict: the entries, in insertion order
    kop,        \* ghost: the last call on the keyed collections and its outcome
    kadded,     \* ghost: the keys add_handler was called with
    kcls,       \* the class of the concurrent collection the threads share
    clock,      \* the concurrent collection's __lock: "free" or its holder
    ktpc,       \* per thread: the statement of the concurrent collection it is at
    kframe,     \* per thread: the local variables of its call
    kcalls,     \* ghost: per key and handler, the add_handler calls issued and returned
    kstack,     \* per thread: the invocations whose handler is making a call
    pcls,       \* how the class got its event properties: @events or EventDispatcher
    pheap,      \* the containers that exist; pheap[EmptyEvent] is _empty_event
    pstore,     \* per instance: self._events / self.__events, from key to container
    pop,        \* ghost: the last statement on an event property and its outcome
    apc,        \* AsyncEvent: "idle", "created" (awaitable made), "running", "done"
    ahandlers,  \* AsyncEvent: the handler list
    aargs,      \* AsyncEvent: the arguments of the invocation
    atasks,     \* AsyncEvent: the handler tasks of the invocation
    alog,       \* ghost: the calls, completions and failures of the tasks, in order
    aresult,    \* what the awaiter of the invocation observed
    dcls,       \* the class whose event properties are used
    dcoll,      \* per instance: the entries of its EventHandlerList
    dlog,       \* ghost: the calls of add and remove accessors, in order
    dop,        \* ghost: the last statement on an event property of dcls
    fcfg,       \* the classes decorated for event fields: package, own __init__s
    fheap,      \* the containers the constructions created, by identity
    fobjs       \* the instances constructed: class, fields and what __init__ did

cvars == <<cls, handlers, order, prev, op>>

ivars == <<pc, snap, idx, args, calls, atStart, result, sub, unsub, thrown, mutated>>

tvars == <<lock, tpc, frame>>

rvars == <<budget>>

\* the variables of the keyed collections and of the event properties
kvars == <<elist, edict, kop, kadded>>

gvars == <<kcls, clock, ktpc, kframe, kcalls, kstack>>

pvars == <<pcls, pheap, pstore, pop>>

avars == <<apc, ahandlers, aargs, atasks, alog, aresult>>

dvars == <<dcls, dcoll, dlog, dop>>

fvars == <<fcfg, fheap, fobjs>>

\* the variables of the decorators event and @events of the events package
uvars == <<dvars, fvars>>

yvars == <<kvars, gvars, pvars, avars, uvars>>

\* the variables of the specifications further down, which the containers'
\* own operations leave alone
xvars == <<rvars, yvars>>

vars == <<cvars, ivars, tvars, xvars>>

NoOp == [kind |-> "new", h |-> "none", err |-> "none", ret |-> "none"]

(***************************************************************************)
(* Event and Delegate: construction, +=, -=, in, iter, len.                *)
(***************************************************************************)
\* __init__(*handlers): self.__handlers = [*handlers]
Construct(values) == values

\* a faulty variant, list.insert(0, value)
AddPosFront(hs) == 1

\* the position list.append gives the new entry
EventAddPos(hs) == Len(hs) + 1

EventIAdd(hs, v) == InsertAt(hs, EventAddPos(hs), v)

DelegateAddPos(hs) == Len(hs) + 1

DelegateIAdd(hs, v) == InsertAt(hs, DelegateAddPos(hs), v)

\* Event.__isub__ compares with `is`
EventMatch(x, v) == PyIs(x, v)

\* Delegate.__isub__ compares with `==`
DelegateMatch(x, v) == PyEq(x, v)

\* for i in range(len - 1, -1, -1): if list[i] is value: ... break
\* the index of the entry the loop deletes, 0 when it ends without a match
RECURSIVE EventScan(_, _, _)
EventScan(hs, v, i) ==
    IF i < 1 THEN 0
    ELSE IF EventMatch(hs[i], v) THEN i
    ELSE EventScan(hs, v, i - 1)

RECURSIVE DelegateScan(_, _, _)
DelegateScan(hs, v, i) ==
    IF i < 1 THEN 0
    ELSE IF DelegateMatch(hs[i], v) THEN i
    ELSE DelegateScan(hs, v, i - 1)

\* a faulty variant, list.remove(value): the first equal entry, ValueError
\* when there is none
ListRemove(hs, v) ==
    IF \E i \in 1..Len(hs) : PyEq(hs[i], v)
    THEN [at |-> CHOOSE i \in 1..Len(hs) :
                    /\ PyEq(hs[i], v)
                    /\ \A j \in 1..(i - 1) : ~PyEq(hs[j], v),
          err |-> "none"]
    ELSE [at |-> 0, err |-> "ValueError"]

\* the entry __isub__ deletes (0: none) and the error it raises
EventISub(hs, v) == [at |-> EventScan(hs, v, Len(hs)), err |-> "none"]

DelegateISub(hs, v) == [at |-> DelegateScan(hs, v, Len(hs)), err |-> "none"]

Deleted(s, at) == IF at = 0 THEN s ELSE DelAt(s, at)

\* Event.__contains__: obj in self.__handlers
EventContains(hs, x) == ListContains(hs, x)

\* Delegate.__contains__: x in self.__invocation_list
DelegateContains(hs, x) == ListContains(hs, x)

\* __iter__: the entries in list order
Iterate(hs) == [i \in 1..Len(hs) |-> hs[i]]

\* __len__
Length(hs) == Len(hs)

AddPos(c, hs) == IF c = "Event" THEN EventAddPos(hs) ELSE DelegateAddPos(hs)

IAdd(c, hs, v) == IF c = "Event" THEN EventIAdd(hs, v) ELSE DelegateIAdd(hs, v)

ISub(c, hs, v) == IF c = "Event" THEN EventISub(hs, v) ELSE DelegateISub(hs, v)

Contains(c, hs, x) ==
    IF c = "Event" THEN EventContains(hs, x) ELSE DelegateContains(hs, x)

\* ghost: the ranks after the entry at position `at` is deleted
DropRank(ord, at) ==
    IF at = 0 THEN ord
    ELSE LET r == ord[at]
             rest == DelAt(ord, at)
         IN  [i \in 1..Len(rest) |-> IF rest[i] > r THEN rest[i] - 1 ELSE rest[i]]

\* the thread variables of a container no thread is using
NoThreads ==
    /\ lock = "free"
    /\ tpc = <<>>
    /\ frame = <<>>

\* no bounded run
RunIdle == budget = 0

\* no concurrent keyed collection
ConcurrentIdle ==
    /\ kcls = "none"
    /\ clock = "free"
    /\ ktpc = <<>>
    /\ kframe = <<>>
    /\ kcalls = <<>>
    /\ kstack = <<>>

\* no class with event properties
PropertiesIdle ==
    /\ pcls = "none"
    /\ pheap = <<>>
    /\ pstore = <<>>
    /\ pop = <<>>

\* no keyed collection
CollectionsIdle ==
    /\ ConcurrentIdle
    /\ elist = <<>>
    /\ edict = <<>>
    /\ kop = <<>>
    /\ kadded = {}

\* no keyed collection and no event property
\* no asynchronous event
AsyncIdle ==
    /\ apc = "none"
    /\ ahandlers = <<>>
    /\ aargs = <<>>
    /\ atasks = <<>>
    /\ alog = <<>>
    /\ aresult = <<>>

\* no class decorated with event or @events of the events package
DecoratorsIdle ==
    /\ dcls = "none"
    /\ dcoll = <<>>
    /\ dlog = <<>>
    /\ dop = <<>>
    /\ fcfg = <<>>
    /\ fheap = <<>>
    /\ fobjs = <<>>

KeyedIdle == CollectionsIdle /\ PropertiesIdle /\ AsyncIdle /\ DecoratorsIdle

\* the variables of the specifications further down, at rest
ExtrasIdle == RunIdle /\ KeyedIdle

\* the invocation variables of a container that is never invoked
InvokeIdle ==
    /\ pc = "idle"
    /\ snap = <<>>
    /\ idx = 0
    /\ args = "none"
    /\ calls = <<>>
    /\ atStart = <<>>
    /\ result = [kind |-> "none", exc |-> "none"]
    /\ sub = <<>>
    /\ unsub = {}
    /\ thrown = [exc |-> "none", at |-> 0]
    /\ mutated = TRUE

InitContainer ==
    /\ ExtrasIdle
    /\ InvokeIdle
    /\ NoThreads
    /\ cls \in {"Event", "Delegate"}
    /\ \E values \in SeqsUpTo(Objects, MaxSeed) : handlers = Construct(values)
    /\ order = [i \in 1..Len(handlers) |-> i]
    /\ prev = handlers
    /\ op = NoOp

\* container += v
Add(v) ==
    /\ Len(handlers) < MaxLen
    /\ handlers' = IAdd(cls, handlers, v)
    /\ order' = InsertAt(order, AddPos(cls, handlers), Len(handlers) + 1)
    /\ prev' = handlers
    /\ op' = [kind |-> "add", h |-> v, err |-> "none", ret |-> "self"]
    /\ UNCHANGED <<xvars, cls, ivars, tvars>>

\* container -= v
Remove(v) ==
    LET r == ISub(cls, handlers, v) IN
    /\ handlers' = Deleted(handlers, r.at)
    /\ order' = DropRank(order, r.at)
    /\ prev' = handlers
    /\ op' = [kind |-> "remove", h |-> v, err |-> r.err, ret |-> "self"]
    /\ UNCHANGED <<xvars, cls, ivars, tvars>>

\* x in container
ContainsQuery(x) ==
    /\ prev' = handlers
    /\ op' = [kind |-> "contains", h |-> x, err |-> "none",
              ret |-> Contains(cls, handlers, x)]
    /\ UNCHANGED <<xvars, cls, handlers, order, ivars, tvars>>

\* [*container]
IterQuery ==
    /\ prev' = handlers
    /\ op' = [kind |-> "iter", h |-> "none", err |-> "none",
              ret |-> Iterate(handlers)]
    /\ UNCHANGED <<xvars, cls, handlers, order, ivars, tvars>>

\* len(container)
LenQuery ==
    /\ prev' = handlers
    /\ op' = [kind |-> "len", h |-> "none", err |-> "none",
              ret |-> Length(handlers)]
    /\ UNCHANGED <<xvars, cls, handlers, order, ivars, tvars>>

NextContainer ==
    \/ \E v \in Objects : Add(v)
    \/ \E v \in Objects : Remove(v)
    \/ \E x \in Objects : ContainsQuery(x)
    \/ IterQuery
    \/ LenQuery

SpecContainer == InitContainer /\ [][NextContainer]_vars

(***************************************************************************)
(* Event.__call__: the synchronous invocation.  A handler is any callable: *)
(* while it runs it may subscribe to and unsubscribe from the event it is  *)
(* called by, and it ends by returning or by raising.                      *)
(***************************************************************************)
InvObjects == {"h1", "h2"}

ArgSet == {
    [pos |-> <<"1", "x">>, kw |-> {}],
    [pos |-> <<"12345", "hello">>, kw |-> {<<"a", "0">>, <<"b", "None">>}] }

Excs == {"ValueError", "KeyError"}

NoResult == [kind |-> "none", exc |-> "none"]

NoThrow == [exc |-> "none", at |-> 0]

\* [*self.__handlers]: a copy of the list
Snapshot(hs) == hs

\* a faulty variant, `for handler in self.__handlers`: the list as it is now
LiveList(sn) == handlers

\* the list the for statement iterates: the copy taken when the call began
IterList(sn) == sn

\* a faulty variant, handler(*args)
PositionalOnly(a) == [pos |-> a.pos, kw |-> {}]

\* handler(*args, **kwargs)
PassArgs(a) == [pos |-> a.pos, kw |-> a.kw]

\* a faulty variant, try: handler(...) except Exception: pass
Swallow(e) == [pc |-> "loop", result |-> NoResult]

\* an exception of a handler is not caught: it ends the loop and the call
Propagate(e) == [pc |-> "idle", result |-> [kind |-> "raised", exc |-> e]]

CalledHandlers == [i \in 1..Len(calls) |-> calls[i].h]

InitInvoke ==
    /\ ExtrasIdle
    /\ NoThreads
    /\ cls = "Event"
    /\ \E values \in SeqsUpTo(InvObjects, MaxSeed) : handlers = Construct(values)
    /\ order = <<>>
    /\ prev = <<>>
    /\ op = NoOp
    /\ pc = "idle"
    /\ snap = <<>>
    /\ idx = 0
    /\ args = "none"
    /\ calls = <<>>
    /\ atStart = <<>>
    /\ result = NoResult
    /\ sub = [g \in InvObjects |-> "no"]
    /\ unsub = {}
    /\ thrown = NoThrow
    /\ mutated = TRUE

\* event(*args, **kwargs): the call begins
Invoke(a) ==
    /\ pc = "idle"
    /\ snap' = Snapshot(handlers)
    /\ idx' = 0
    /\ args' = a
    /\ calls' = <<>>
    /\ atStart' = handlers
    /\ result' = NoResult
    /\ sub' = [g \in InvObjects |-> IF sub[g] = "cur" THEN "prev" ELSE sub[g]]
    /\ unsub' = {}
    /\ thrown' = NoThrow
    /\ mutated' = FALSE
    /\ pc' = "loop"
    /\ UNCHANGED <<xvars, cvars, tvars>>

\* the for statement takes the next entry and calls it
CallHandler ==
    /\ pc = "loop"
    /\ idx < Len(IterList(snap))
    /\ idx' = idx + 1
    /\ calls' = Append(calls, [h |-> IterList(snap)[idx + 1], args |-> PassArgs(args)])
    /\ pc' = "handler"
    /\ UNCHANGED <<xvars, tvars, cvars, snap, args, atStart, result, sub, unsub, thrown, mutated>>

\* the for statement finds no further entry: the call returns
InvokeReturn ==
    /\ pc = "loop"
    /\ idx >= Len(IterList(snap))
    /\ pc' = "idle"
    /\ result' = [kind |-> "returned", exc |-> "none"]
    /\ UNCHANGED <<xvars, tvars, cvars, snap, idx, args, calls, atStart, sub, unsub, thrown, mutated>>

\* the running handler executes event += g
HandlerSubscribe(g) ==
    /\ pc = "handler"
    /\ Len(handlers) < MaxInvLen
    /\ handlers' = EventIAdd(handlers, g)
    /\ sub' = [sub EXCEPT ![g] = "cur"]
    /\ unsub' = unsub \ {g}
    /\ mutated' = TRUE
    /\ UNCHANGED <<xvars, tvars, cls, order, prev, op, pc, snap, idx, args, calls, atStart, result, thrown>>

\* the running handler executes event -= g
HandlerUnsubscribe(g) ==
    LET r == EventISub(handlers, g) IN
    /\ pc = "handler"
    /\ handlers' = Deleted(handlers, r.at)
    /\ sub' = [sub EXCEPT ![g] = IF g \in Range(handlers') THEN @ ELSE "no"]
    /\ unsub' = IF r.at # 0 /\ sub[g] # "cur" THEN unsub \cup {g} ELSE unsub
    /\ mutated' = TRUE
    /\ UNCHANGED <<xvars, tvars, cls, order, prev, op, pc, snap, idx, args, calls, atStart, result, thrown>>

\* the running handler returns
HandlerReturn ==
    /\ pc = "handler"
    /\ pc' = "loop"
    /\ UNCHANGED <<xvars, tvars, cvars, snap, idx, args, calls, atStart, result, sub, unsub, thrown, mutated>>

\* the running handler raises e
HandlerRaise(e) ==
    /\ pc = "handler"
    /\ thrown' = [exc |-> e, at |-> idx]
    /\ pc' = Propagate(e).pc
    /\ result' = Propagate(e).result
    /\ UNCHANGED <<xvars, tvars, cvars, snap, idx, args, calls, atStart, sub, unsub, mutated>>

\* event += g while no call is in flight
Subscribe(g) ==
    /\ pc = "idle"
    /\ Len(handlers) < MaxInvLen
    /\ handlers' = EventIAdd(handlers, g)
    /\ unsub' = unsub \ {g}
    /\ mutated' = TRUE
    /\ UNCHANGED <<xvars, tvars, cls, order, prev, op, pc, snap, idx, args, calls, atStart, result, sub, thrown>>

\* event -= g while no call is in flight
Unsubscribe(g) ==
    LET r == EventISub(handlers, g) IN
    /\ pc = "idle"
    /\ handlers' = Deleted(handlers, r.at)
    /\ sub' = [sub EXCEPT ![g] = IF g \in Range(handlers') THEN @ ELSE "no"]
    /\ mutated' = TRUE
    /\ UNCHANGED <<xvars, tvars, cls, order, prev, op, pc, snap, idx, args, calls, atStart, result, unsub, thrown>>

NextInvoke ==
    \/ \E a \in ArgSet : Invoke(a)
    \/ CallHandler
    \/ InvokeReturn
    \/ \E g \in InvObjects : HandlerSubscribe(g)
    \/ \E g \in InvObjects : HandlerUnsubscribe(g)
    \/ HandlerReturn
    \/ \E e \in Excs : HandlerRaise(e)
    \/ \E g \in InvObjects : Subscribe(g)
    \/ \E g \in InvObjects : Unsubscribe(g)

SpecInvoke == InitInvoke /\ [][NextInvoke]_vars

(***************************************************************************)
(* VolatileEvent: +=, -= and the call take the event's lock, a             *)
(* threading.Lock, which is not reentrant: acquire waits while any thread, *)
(* the caller included, holds it.  Each thread is at one statement; a      *)
(* handler called by a thread may itself execute += or -= on the event.    *)
(***************************************************************************)
Threads == {"t1", "t2"}

VObjects == {"h1", "h2"}

IdleFrame == [v |-> "none", at |-> 0, snap |-> <<>>, i |-> 0]

\* the statements at which a thread holds the lock
CriticalPcs == {"add_body", "add_rel", "sub_scan", "sub_del", "sub_rel",
                "call_copy", "call_rel"}

\* the statements at which a thread waits for the lock
AcquirePcs == {"add_acq", "sub_acq", "call_acq"}

\* a faulty variant: acquire returns at once, whoever holds the lock
AcquireUnguarded(l) == TRUE

\* self._lock.acquire() returns once no thread holds the lock
Acquirable(l) == l = "free"

\* handlers = [*self]
VSnapshot(hs) == Iterate(hs)

\* a faulty variant: the release is moved behind the for loop
KeepLock(t) == t

\* self._lock.release() of __call__, before the for loop
ReleaseAfterCopy(t) == "free"

\* where += and -= return to: the handler that executed them (the for loop of
\* the thread's __call__ has taken an entry) or the thread's own code
Caller(t) == IF frame[t].i > 0 THEN "handler" ELSE "idle"

\* the += of which the append is still to come
PendingAdds == Cardinality({t \in Threads : tpc[t] \in {"add_acq", "add_body"}})

InitVolatileEvent ==
    /\ InvokeIdle
    /\ cls = "VolatileEvent"
    /\ \E values \in SeqsUpTo(VObjects, MaxVLen - 1) : handlers = Construct(values)
    /\ order = <<>>
    /\ prev = <<>>
    /\ op = NoOp
    /\ lock = "free"
    /\ tpc = [t \in Threads |-> "idle"]
    /\ frame = [t \in Threads |-> IdleFrame]

InitVolatile == InitVolatileEvent /\ ExtrasIdle

\* thread t, or the handler it is running, executes event += v
VAddBegin(t, v) ==
    /\ tpc[t] \in {"idle", "handler"}
    /\ Len(handlers) + PendingAdds < MaxVLen
    /\ frame' = [frame EXCEPT ![t].v = v]
    /\ tpc' = [tpc EXCEPT ![t] = "add_acq"]
    /\ UNCHANGED <<xvars, cvars, ivars, lock>>

\* __iadd__: self._lock.acquire()
VAddAcquire(t) ==
    /\ tpc[t] = "add_acq"
    /\ Acquirable(lock)
    /\ lock' = t
    /\ tpc' = [tpc EXCEPT ![t] = "add_body"]
    /\ UNCHANGED <<xvars, cvars, ivars, frame>>

\* __iadd__: super().__iadd__(value)
VAddBody(t) ==
    /\ tpc[t] = "add_body"
    /\ handlers' = EventIAdd(handlers, frame[t].v)
    /\ tpc' = [tpc EXCEPT ![t] = "add_rel"]
    /\ UNCHANGED <<xvars, cls, order, prev, op, ivars, lock, frame>>

\* __iadd__: self._lock.release(); return self
VAddRelease(t) ==
    /\ tpc[t] = "add_rel"
    /\ lock' = "free"
    /\ tpc' = [tpc EXCEPT ![t] = Caller(t)]
    /\ frame' = [frame EXCEPT ![t].v = "none"]
    /\ UNCHANGED <<xvars, cvars, ivars>>

\* thread t, or the handler it is running, executes event -= v
VSubBegin(t, v) ==
    /\ tpc[t] \in {"idle", "handler"}
    /\ frame' = [frame EXCEPT ![t].v = v]
    /\ tpc' = [tpc EXCEPT ![t] = "sub_acq"]
    /\ UNCHANGED <<xvars, cvars, ivars, lock>>

\* __isub__: self._lock.acquire()
VSubAcquire(t) ==
    /\ tpc[t] = "sub_acq"
    /\ Acquirable(lock)
    /\ lock' = t
    /\ tpc' = [tpc EXCEPT ![t] = "sub_scan"]
    /\ UNCHANGED <<xvars, cvars, ivars, frame>>

\* __isub__: super().__isub__(value), the for loop up to its match
VSubScan(t) ==
    /\ tpc[t] = "sub_scan"
    /\ frame' = [frame EXCEPT ![t].at = EventISub(handlers, frame[t].v).at]
    /\ tpc' = [tpc EXCEPT ![t] = "sub_del"]
    /\ UNCHANGED <<xvars, cvars, ivars, lock>>

\* __isub__: super().__isub__(value), del self.__handlers[i]
VSubDelete(t) ==
    /\ tpc[t] = "sub_del"
    /\ handlers' = Deleted(handlers, frame[t].at)
    /\ tpc' = [tpc EXCEPT ![t] = "sub_rel"]
    /\ UNCHANGED <<xvars, cls, order, prev, op, ivars, lock, frame>>

\* __isub__: self._lock.release(); return self
VSubRelease(t) ==
    /\ tpc[t] = "sub_rel"
    /\ lock' = "free"
    /\ tpc' = [tpc EXCEPT ![t] = Caller(t)]
    /\ frame' = [frame EXCEPT ![t].v = "none", ![t].at = 0]
    /\ UNCHANGED <<xvars, cvars, ivars>>

\* thread t executes event(...)
VCallBegin(t) ==
    /\ tpc[t] = "idle"
    /\ tpc' = [tpc EXCEPT ![t] = "call_acq"]
    /\ UNCHANGED <<xvars, cvars, ivars, lock, frame>>

\* __call__: self._lock.acquire()
VCallAcquire(t) ==
    /\ tpc[t] = "call_acq"
    /\ Acquirable(lock)
    /\ lock' = t
    /\ tpc' = [tpc EXCEPT ![t] = "call_copy"]
    /\ UNCHANGED <<xvars, cvars, ivars, frame>>

\* __call__: handlers = [*self]
VCallCopy(t) ==
    /\ tpc[t] = "call_copy"
    /\ frame' = [frame EXCEPT ![t].snap = VSnapshot(handlers), ![t].i = 0]
    /\ tpc' = [tpc EXCEPT ![t] = "call_rel"]
    /\ UNCHANGED <<xvars, cvars, ivars, lock>>

\* __call__: self._lock.release()
VCallRelease(t) ==
    /\ tpc[t] = "call_rel"
    /\ lock' = ReleaseAfterCopy(t)
    /\ tpc' = [tpc EXCEPT ![t] = "call_loop"]
    /\ UNCHANGED <<xvars, cvars, ivars, frame>>

\* __call__: the for statement takes the next entry of the copy and calls it
VCallNext(t) ==
    /\ tpc[t] = "call_loop"
    /\ frame[t].i < Len(frame[t].snap)
    /\ frame' = [frame EXCEPT ![t].i = @ + 1]
    /\ tpc' = [tpc EXCEPT ![t] = "handler"]
    /\ UNCHANGED <<xvars, cvars, ivars, lock>>

\* __call__: the for statement finds no further entry, the call returns
VCallEnd(t) ==
    /\ tpc[t] = "call_loop"
    /\ frame[t].i >= Len(frame[t].snap)
    /\ frame' = [frame EXCEPT ![t] = IdleFrame]
    /\ tpc' = [tpc EXCEPT ![t] = "idle"]
    /\ UNCHANGED <<xvars, cvars, ivars, lock>>

\* the handler thread t is running returns
VHandlerReturn(t) ==
    /\ tpc[t] = "handler"
    /\ tpc' = [tpc EXCEPT ![t] = "call_loop"]
    /\ UNCHANGED <<xvars, cvars, ivars, lock, frame>>

\* the handler thread t is running raises: __call__ ends with the exception
VHandlerRaise(t) ==
    /\ tpc[t] = "handler"
    /\ frame' = [frame EXCEPT ![t] = IdleFrame]
    /\ tpc' = [tpc EXCEPT ![t] = "idle"]
    /\ UNCHANGED <<xvars, cvars, ivars, lock>>

NextVolatile ==
    \E t \in Threads :
        \/ \E v \in VObjects : VAddBegin(t, v)
        \/ VAddAcquire(t)
        \/ VAddBody(t)
        \/ VAddRelease(t)
        \/ \E v \in VObjects : VSubBegin(t, v)
        \/ VSubAcquire(t)
        \/ VSubScan(t)
        \/ VSubDelete(t)
        \/ VSubRelease(t)
        \/ VCallBegin(t)
        \/ VCallAcquire(t)
        \/ VCallCopy(t)
        \/ VCallRelease(t)
        \/ VCallNext(t)
        \/ VCallEnd(t)
        \/ VHandlerReturn(t)
        \/ VHandlerRaise(t)

SpecVolatile == InitVolatile /\ [][NextVolatile]_vars

(***************************************************************************)
(* A bounded run on one VolatileEvent: the threads, and the handlers they  *)
(* run, issue MaxCalls calls of +=, -= and event(...) in all, in any       *)
(* interleaving.  Every thread that is inside a call goes on (weak         *)
(* fairness of its statements); a handler it runs returns or raises.       *)
(***************************************************************************)
\* thread t, or the handler it is running, executes event += v
RunAddBegin(t, v) ==
    /\ budget > 0
    /\ budget' = budget - 1
    /\ tpc[t] \in {"idle", "handler"}
    /\ frame' = [frame EXCEPT ![t].v = v]
    /\ tpc' = [tpc EXCEPT ![t] = "add_acq"]
    /\ UNCHANGED <<cvars, ivars, yvars, lock>>

\* thread t, or the handler it is running, executes event -= v
RunSubBegin(t, v) ==
    /\ budget > 0
    /\ budget' = budget - 1
    /\ tpc[t] \in {"idle", "handler"}
    /\ frame' = [frame EXCEPT ![t].v = v]
    /\ tpc' = [tpc EXCEPT ![t] = "sub_acq"]
    /\ UNCHANGED <<cvars, ivars, yvars, lock>>

\* thread t executes event(...)
RunCallBegin(t) ==
    /\ budget > 0
    /\ budget' = budget - 1
    /\ tpc[t] = "idle"
    /\ tpc' = [tpc EXCEPT ![t] = "call_acq"]
    /\ UNCHANGED <<cvars, ivars, yvars, lock, frame>>

\* the statements of thread t inside a call
VolatileStep(t) ==
    \/ VAddAcquire(t)
    \/ VAddBody(t)
    \/ VAddRelease(t)
    \/ VSubAcquire(t)
    \/ VSubScan(t)
    \/ VSubDelete(t)
    \/ VSubRelease(t)
    \/ VCallAcquire(t)
    \/ VCallCopy(t)
    \/ VCallRelease(t)
    \/ VCallNext(t)
    \/ VCallEnd(t)
    \/ VHandlerReturn(t)
    \/ VHandlerRaise(t)

InitVolatileRun ==
    /\ InitVolatileEvent
    /\ KeyedIdle
    /\ budget = MaxCalls

NextVolatileRun ==
    \E t \in Threads :
        \/ \E v \in VObjects : RunAddBegin(t, v)
        \/ \E v \in VObjects : RunSubBegin(t, v)
        \/ RunCallBegin(t)
        \/ VolatileStep(t)

SpecVolatileRun ==
    /\ InitVolatileRun
    /\ [][NextVolatileRun]_vars
    /\ \A t \in Threads : WF_vars(VolatileStep(t))

(***************************************************************************)
(* The copy of __call__, handlers = [*self], entry by entry: the list      *)
(* iterator that Event.__iter__ returns reads self.__handlers[i] for       *)
(* i = 0, 1, ... and stops at the first i that is not below the length     *)
(* the list has at that moment.                                            *)
(***************************************************************************)
\* iter(self.__handlers): the iterator and the empty copy
VCallIter(t) ==
    /\ tpc[t] = "call_copy"
    /\ frame' = [frame EXCEPT ![t].snap = <<>>, ![t].i = 0]
    /\ tpc' = [tpc EXCEPT ![t] = "call_iter"]
    /\ UNCHANGED <<xvars, cvars, ivars, lock>>

\* the iterator yields self.__handlers[i], which is appended to the copy
VCallIterNext(t) ==
    /\ tpc[t] = "call_iter"
    /\ frame[t].i < Len(handlers)
    /\ frame' = [frame EXCEPT ![t].snap = Append(@, handlers[frame[t].i + 1]),
                              ![t].i = @ + 1]
    /\ UNCHANGED <<xvars, cvars, ivars, lock, tpc>>

\* the iterator is exhausted: the copy is complete
VCallIterEnd(t) ==
    /\ tpc[t] = "call_iter"
    /\ frame[t].i >= Len(handlers)
    /\ frame' = [frame EXCEPT ![t].i = 0]
    /\ tpc' = [tpc EXCEPT ![t] = "call_rel"]
    /\ UNCHANGED <<xvars, cvars, ivars, lock>>

NextVolatileCopy ==
    \E t \in Threads :
        \/ \E v \in VObjects : RunAddBegin(t, v)
        \/ \E v \in VObjects : RunSubBegin(t, v)
        \/ RunCallBegin(t)
        \/ VAddAcquire(t)
        \/ VAddBody(t)
        \/ VAddRelease(t)
        \/ VSubAcquire(t)
        \/ VSubScan(t)
        \/ VSubDelete(t)
        \/ VSubRelease(t)
        \/ VCallAcquire(t)
        \/ VCallIter(t)
        \/ VCallIterNext(t)
        \/ VCallIterEnd(t)
        \/ VCallRelease(t)
        \/ VCallNext(t)
        \/ VCallEnd(t)
        \/ VHandlerReturn(t)
        \/ VHandlerRaise(t)

SpecVolatileCopy == InitVolatileRun /\ [][NextVolatileCopy]_vars

(***************************************************************************)
(* Keyed collections.  An entry holds the key object it was created with,  *)
(* the container object (ev, its identity) and the container's handler     *)
(* list hs; the entry of a concurrent collection holds a VolatileEvent,    *)
(* whose lock is lk.  "k1b" is a key object distinct from "k1" that        *)
(* compares equal to it and has the same hash (two equal strings or        *)
(* tuples); "k2" is equal to itself only.                                  *)
(***************************************************************************)
Keys == {"k1", "k2", "k1b"}

KHandlers == {"h1", "h2"}

\* the value a key's __eq__ and __hash__ go by
KeyValue(k) == IF k = "k1b" THEN "k1" ELSE k

KeyValues == {KeyValue(k) : k \in Keys}

\* a faulty variant, `k is key`
KeyIs(k, key) == k = key

\* k == key
KeyEq(k, key) == KeyValue(k) = KeyValue(key)

\* the result None of a lookup; container objects are numbered from 1
Absent == 0

\* __getitem__ of the linked lists: the walk from the head, up to the first
\* entry whose key equals key
RECURSIVE ListWalk(_, _, _)
ListWalk(es, key, i) ==
    IF i > Len(es) THEN 0
    ELSE IF KeyEq(es[i].key, key) THEN i
    ELSE ListWalk(es, key, i + 1)

\* a faulty variant: after the walk, the container of the last entry visited
\* is returned
ListGetItemLastVisited(es, key) ==
    LET i == ListWalk(es, key, 1) IN
        IF i # 0 THEN es[i].ev ELSE IF es = <<>> THEN Absent ELSE es[Len(es)].ev

ListGetItem(es, key) ==
    LET i == ListWalk(es, key, 1) IN IF i = 0 THEN Absent ELSE es[i].ev

\* the slot of the dictionary that holds a key equal to key (0: none)
DictSlot(es, key) ==
    IF \E i \in 1..Len(es) : KeyEq(es[i].key, key)
    THEN CHOOSE i \in 1..Len(es) : KeyEq(es[i].key, key)
    ELSE 0

\* self.__dict.get(key) of the dictionaries, for a hashable key
DictGet(es, key) ==
    LET i == DictSlot(es, key) IN IF i = 0 THEN Absent ELSE es[i].ev

\* VolatileEvent(value)
NewVolatileEvent(key, id, v) ==
    [key |-> key, ev |-> id, hs |-> Construct(<<v>>), lk |-> "free"]

\* self.__head = (key, <container>, self.__head)
ListPrepend(es, entry) == <<entry>> \o es

\* self.__dict[key] = <container>, for a key the dictionary does not hold
DictInsert(es, entry) == Append(es, entry)

\* the position of the entry that holds the container object e
EntryOf(es, e) == CHOOSE i \in 1..Len(es) : es[i].ev = e

(***************************************************************************)
(* EventHandlerList and EventHandlerDict, run side by side on the same     *)
(* calls of one thread.  "u" is a key that is not hashable (a list, an     *)
(* instance of a dataclass): it compares equal to itself, and hash(u)      *)
(* raises TypeError.                                                       *)
(***************************************************************************)
Unhashable == {"u"}

\* hash(key) returns
Hashable(key) == key \notin Unhashable

\* what a call on the dictionary raises
DictErr(key) == IF Hashable(key) THEN "none" ELSE "TypeError"

\* event_type(value), the default event_type
NewEvent(key, id, v) == [key |-> key, ev |-> id, hs |-> Construct(<<v>>)]

\* a faulty variant: a new entry is put in front without the lookup
ListAddAlwaysNew(es, key, v) == ListPrepend(es, NewEvent(key, Len(es) + 1, v))

\* EventHandlerList.add_handler
ListAddHandler(es, key, v) ==
    LET e == ListGetItem(es, key) IN
        IF e = Absent THEN ListPrepend(es, NewEvent(key, Len(es) + 1, v))
        ELSE [es EXCEPT ![EntryOf(es, e)].hs = EventIAdd(@, v)]

\* a faulty variant: self.__dict[key] = event_type(value) without the lookup
DictAddOverwrite(es, key, v) ==
    LET i == DictSlot(es, key) IN
        IF i = 0 THEN DictInsert(es, NewEvent(key, Len(es) + 1, v))
        ELSE [es EXCEPT ![i].hs = Construct(<<v>>)]

\* EventHandlerDict.add_handler, for a hashable key
DictAddHandler(es, key, v) ==
    LET e == DictGet(es, key) IN
        IF e = Absent THEN DictInsert(es, NewEvent(key, Len(es) + 1, v))
        ELSE [es EXCEPT ![EntryOf(es, e)].hs = EventIAdd(@, v)]

\* a faulty variant: the handler is removed from every container
RemoveFromAll(es, e, v) ==
    [i \in 1..Len(es) |-> [es[i] EXCEPT !.hs = Deleted(@, EventISub(@, v).at)]]

\* a faulty variant: a container that becomes empty is taken out
RemoveAndDrop(es, e, v) ==
    IF e = Absent THEN es
    ELSE LET i == EntryOf(es, e)
             hs == Deleted(es[i].hs, EventISub(es[i].hs, v).at)
         IN  IF hs = <<>> THEN DelAt(es, i) ELSE [es EXCEPT ![i].hs = hs]

\* remove_handler, after e := self[key]
RemoveHandler(es, e, v) ==
    IF e = Absent THEN es
    ELSE [es EXCEPT ![EntryOf(es, e)].hs = Deleted(@, EventISub(@, v).at)]

\* a faulty variant: the container at the front is called, whatever its key
InvokeFront(es, e, a) ==
    IF es = <<>> THEN <<>>
    ELSE [j \in 1..Len(es[1].hs) |-> [h |-> es[1].hs[j], args |-> PassArgs(a)]]

\* invoke, after e := self[key]: the calls e(*args, **kwargs) makes
InvokeCalls(es, e, a) ==
    IF e = Absent THEN <<>>
    ELSE LET sn == IterList(Snapshot(es[EntryOf(es, e)].hs)) IN
             [j \in 1..Len(sn) |-> [h |-> sn[j], args |-> PassArgs(a)]]

NoArgs == [pos |-> <<>>, kw |-> {}]

NoKOp == [kind |-> "none", key |-> "none", h |-> "none", args |-> NoArgs,
          lret |-> Absent, dret |-> Absent, lcalls |-> <<>>, dcalls |-> <<>>,
          lerr |-> "none", derr |-> "none"]

\* the variables no call on a keyed collection touches
kothers == <<cvars, ivars, tvars, rvars, gvars, pvars, avars, uvars>>

InitKeyed ==
    /\ InvokeIdle
    /\ NoThreads
    /\ RunIdle
    /\ ConcurrentIdle
    /\ PropertiesIdle
    /\ AsyncIdle
    /\ DecoratorsIdle
    /\ cls = "Event"
    /\ handlers = <<>>
    /\ order = <<>>
    /\ prev = <<>>
    /\ op = NoOp
    /\ elist = <<>>
    /\ edict = <<>>
    /\ kop = NoKOp
    /\ kadded = {}

\* the handler list of every container is shorter than MaxKLen
RoomFor(es, key) ==
    \A i \in 1..Len(es) : KeyEq(es[i].key, key) => Len(es[i].hs) < MaxKLen

\* collection[key]
KeyedLookup(k) ==
    /\ kop' = [NoKOp EXCEPT !.kind = "lookup", !.key = k,
                            !.lret = ListGetItem(elist, k),
                            !.dret = IF Hashable(k) THEN DictGet(edict, k) ELSE Absent,
                            !.derr = DictErr(k)]
    /\ UNCHANGED <<kothers, elist, edict, kadded>>

\* collection.add_handler(k, v)
KeyedAddHandler(k, v) ==
    /\ RoomFor(elist, k) /\ RoomFor(edict, k)
    /\ elist' = ListAddHandler(elist, k, v)
    /\ edict' = IF Hashable(k) THEN DictAddHandler(edict, k, v) ELSE edict
    /\ kadded' = kadded \cup {KeyValue(k)}
    /\ kop' = [NoKOp EXCEPT !.kind = "add_handler", !.key = k, !.h = v,
                            !.derr = DictErr(k)]
    /\ UNCHANGED kothers

\* collection.remove_handler(k, v)
KeyedRemoveHandler(k, v) ==
    /\ elist' = RemoveHandler(elist, ListGetItem(elist, k), v)
    /\ edict' = IF Hashable(k) THEN RemoveHandler(edict, DictGet(edict, k), v)
                ELSE edict
    /\ kop' = [NoKOp EXCEPT !.kind = "remove_handler", !.key = k, !.h = v,
                            !.derr = DictErr(k)]
    /\ UNCHANGED <<kothers, kadded>>

\* collection.invoke(k, *a.pos, **a.kw)
KeyedInvoke(k, a) ==
    /\ kop' = [NoKOp EXCEPT
                   !.kind = "invoke", !.key = k, !.args = a,
                   !.lcalls = InvokeCalls(elist, ListGetItem(elist, k), a),
                   !.dcalls = IF Hashable(k)
                              THEN InvokeCalls(edict, DictGet(edict, k), a)
                              ELSE <<>>,
                   !.derr = DictErr(k)]
    /\ UNCHANGED <<kothers, elist, edict, kadded>>

KeyedCall(k) ==
    \/ KeyedLookup(k)
    \/ \E v \in KHandlers : KeyedAddHandler(k, v)
    \/ \E v \in KHandlers : KeyedRemoveHandler(k, v)
    \/ \E a \in ArgSet : KeyedInvoke(k, a)

\* the calls with hashable keys
NextKeyed == \E k \in Keys : KeyedCall(k)

SpecKeyed == InitKeyed /\ [][NextKeyed]_vars

\* a key, a second key equal to it, and a key that is not hashable
MixedKeys == {"k1", "k1b"} \cup Unhashable

\* the calls with keys of either kind
NextKeyedAny == \E k \in MixedKeys : KeyedCall(k)

SpecKeyedAny == InitKeyed /\ [][NextKeyedAny]_vars

(***************************************************************************)
(* ConcurrentEventHandlerList and ConcurrentEventHandlerDict: threads call *)
(* add_handler on one collection.  The collection's lock and each          *)
(* container's lock are threading.Locks.                                   *)
(***************************************************************************)
ConcurrentClasses == {"ConcurrentEventHandlerList", "ConcurrentEventHandlerDict"}

KThreads == {"t1", "t2", "t3"}

\* the entries of the shared collection
Coll == IF kcls = "ConcurrentEventHandlerList" THEN elist ELSE edict

\* a faulty variant: the collection's lock does not keep a second thread out
CollAcquireUnguarded(l) == TRUE

\* self.__lock.acquire() returns once no thread holds the collection's lock
CollAcquirable(l) == l = "free"

\* e := self[key] (list), e := self.__dict.get(key) (dictionary)
ConcurrentGet(c, es, key) ==
    IF c = "ConcurrentEventHandlerList" THEN ListGetItem(es, key)
    ELSE DictGet(es, key)

\* the creating branch of add_handler
ConcurrentCreate(c, es, key, v) ==
    IF c = "ConcurrentEventHandlerList"
    THEN ListPrepend(es, NewVolatileEvent(key, Len(es) + 1, v))
    ELSE DictInsert(es, NewVolatileEvent(key, Len(es) + 1, v))

IdleKFrame == [call |-> "none", key |-> "none", v |-> "none", e |-> Absent,
               at |-> 0, snap |-> <<>>, i |-> 0]

NoCalls == [c \in KeyValues \X KHandlers |-> [issued |-> 0, returned |-> 0]]

Issued(k, v) ==
    IF <<KeyValue(k), v>> \in DOMAIN kcalls
    THEN [kcalls EXCEPT ![<<KeyValue(k), v>>].issued = @ + 1]
    ELSE kcalls

Returned(k, v) ==
    IF <<KeyValue(k), v>> \in DOMAIN kcalls
    THEN [kcalls EXCEPT ![<<KeyValue(k), v>>].returned = @ + 1]
    ELSE kcalls

\* the variables no call on a concurrent collection touches
gothers == <<cvars, ivars, tvars, kop, kadded, pvars, avars, uvars, kstack>>

InitConcurrent ==
    /\ InvokeIdle
    /\ NoThreads
    /\ PropertiesIdle
    /\ AsyncIdle
    /\ DecoratorsIdle
    /\ cls = "VolatileEvent"
    /\ handlers = <<>>
    /\ order = <<>>
    /\ prev = <<>>
    /\ op = NoOp
    /\ kop = <<>>
    /\ kadded = {}
    /\ budget = MaxKCalls
    /\ kcls \in ConcurrentClasses
    /\ elist = <<>>
    /\ edict = <<>>
    /\ clock = "free"
    /\ ktpc = [t \in KThreads |-> "idle"]
    /\ kframe = [t \in KThreads |-> IdleKFrame]
    /\ kcalls = NoCalls
    /\ kstack = [t \in KThreads |-> <<>>]

\* the collection with new entries in place of es
SetColl(es) ==
    /\ elist' = IF kcls = "ConcurrentEventHandlerList" THEN es ELSE elist
    /\ edict' = IF kcls = "ConcurrentEventHandlerList" THEN edict ELSE es

\* thread t calls add_handler(k, v)
CAddBegin(t, k, v) ==
    /\ budget > 0
    /\ budget' = budget - 1
    /\ ktpc[t] = "idle"
    /\ kframe' = [kframe EXCEPT ![t] = [IdleKFrame EXCEPT !.call = "add_handler",
                                                         !.key = k, !.v = v]]
    /\ ktpc' = [ktpc EXCEPT ![t] = "ah_acq"]
    /\ kcalls' = Issued(k, v)
    /\ UNCHANGED <<gothers, kcls, elist, edict, clock>>

\* add_handler: self.__lock.acquire()
CAddAcquire(t) ==
    /\ ktpc[t] = "ah_acq"
    /\ CollAcquirable(clock)
    /\ clock' = t
    /\ ktpc' = [ktpc EXCEPT ![t] = "ah_get"]
    /\ UNCHANGED <<gothers, budget, kcls, elist, edict, kframe, kcalls>>

\* self.__dict.get(key) raises TypeError: the key has no hash
GetRaises(c, key) == c = "ConcurrentEventHandlerDict" /\ ~Hashable(key)

\* add_handler: if (e := self[key]) is None (list),
\* if (e := self.__dict.get(key)) is None (dictionary); the TypeError of the
\* dictionary ends the call where it is, after acquire() and before release()
CAddGet(t) ==
    /\ ktpc[t] = "ah_get"
    /\ IF GetRaises(kcls, kframe[t].key)
       THEN /\ kframe' = [kframe EXCEPT ![t] = IdleKFrame]
            /\ ktpc' = [ktpc EXCEPT ![t] = "idle"]
       ELSE LET e == ConcurrentGet(kcls, Coll, kframe[t].key) IN
            /\ kframe' = [kframe EXCEPT ![t].e = e]
            /\ ktpc' = [ktpc EXCEPT ![t] = IF e = Absent THEN "ah_new"
                                                           ELSE "ah_rel"]
    /\ UNCHANGED <<gothers, budget, kcls, elist, edict, clock, kcalls>>

\* add_handler: the container is created and stored
CAddNew(t) ==
    /\ ktpc[t] = "ah_new"
    /\ SetColl(ConcurrentCreate(kcls, Coll, kframe[t].key, kframe[t].v))
    /\ ktpc' = [ktpc EXCEPT ![t] = "ah_rel_new"]
    /\ UNCHANGED <<gothers, budget, kcls, clock, kframe, kcalls>>

\* add_handler: self.__lock.release() of the creating branch; the call returns
CAddReleaseNew(t) ==
    /\ ktpc[t] = "ah_rel_new"
    /\ clock' = "free"
    /\ ktpc' = [ktpc EXCEPT ![t] = "idle"]
    /\ kcalls' = Returned(kframe[t].key, kframe[t].v)
    /\ kframe' = [kframe EXCEPT ![t] = IdleKFrame]
    /\ UNCHANGED <<gothers, budget, kcls, elist, edict>>

\* add_handler: self.__lock.release() of the appending branch
CAddRelease(t) ==
    /\ ktpc[t] = "ah_rel"
    /\ clock' = "free"
    /\ ktpc' = [ktpc EXCEPT ![t] = "ev_add_acq"]
    /\ UNCHANGED <<gothers, budget, kcls, elist, edict, kframe, kcalls>>

\* e += value: VolatileEvent.__iadd__, self._lock.acquire()
CEventAddAcquire(t) ==
    /\ ktpc[t] = "ev_add_acq"
    /\ LET i == EntryOf(Coll, kframe[t].e) IN
           /\ Acquirable(Coll[i].lk)
           /\ SetColl([Coll EXCEPT ![i].lk = t])
    /\ ktpc' = [ktpc EXCEPT ![t] = "ev_add_body"]
    /\ UNCHANGED <<gothers, budget, kcls, clock, kframe, kcalls>>

\* e += value: VolatileEvent.__iadd__, super().__iadd__(value)
CEventAddBody(t) ==
    /\ ktpc[t] = "ev_add_body"
    /\ LET i == EntryOf(Coll, kframe[t].e) IN
           SetColl([Coll EXCEPT ![i].hs = EventIAdd(@, kframe[t].v)])
    /\ ktpc' = [ktpc EXCEPT ![t] = "ev_add_rel"]
    /\ UNCHANGED <<gothers, budget, kcls, clock, kframe, kcalls>>

\* e += value: VolatileEvent.__iadd__, self._lock.release(); the call returns
CEventAddRelease(t) ==
    /\ ktpc[t] = "ev_add_rel"
    /\ LET i == EntryOf(Coll, kframe[t].e) IN
           SetColl([Coll EXCEPT ![i].lk = "free"])
    /\ ktpc' = [ktpc EXCEPT ![t] = "idle"]
    /\ kcalls' = Returned(kframe[t].key, kframe[t].v)
    /\ kframe' = [kframe EXCEPT ![t] = IdleKFrame]
    /\ UNCHANGED <<gothers, budget, kcls, clock>>

\* where a call goes on after e := self[key]
AfterGet(call, e) ==
    IF e = Absent \/ call = "lookup" THEN "idle"
    ELSE IF call = "remove_handler" THEN "ev_sub_acq"
    ELSE "ev_call_acq"

\* the frame of thread t as it goes on to the statement at
Onward(t, at, e) ==
    [kframe EXCEPT ![t] = IF at = "idle" THEN IdleKFrame ELSE [@ EXCEPT !.e = e]]

\* thread t calls collection[k], remove_handler(k, v) or invoke(k)
CGetBegin(t, call, k, v) ==
    /\ budget > 0
    /\ budget' = budget - 1
    /\ ktpc[t] = "idle"
    /\ kframe' = [kframe EXCEPT ![t] = [IdleKFrame EXCEPT !.call = call,
                                                         !.key = k, !.v = v]]
    /\ ktpc' = [ktpc EXCEPT ![t] = IF kcls = "ConcurrentEventHandlerList"
                                   THEN "get" ELSE "get_acq"]
    /\ UNCHANGED <<gothers, kcls, elist, edict, clock, kcalls>>

\* ConcurrentEventHandlerDict.__getitem__: self.__lock.acquire()
CGetAcquire(t) ==
    /\ ktpc[t] = "get_acq"
    /\ CollAcquirable(clock)
    /\ clock' = t
    /\ ktpc' = [ktpc EXCEPT ![t] = "get"]
    /\ UNCHANGED <<gothers, budget, kcls, elist, edict, kframe, kcalls>>

\* __getitem__: next = self.__head and the walk (list), which takes no lock;
\* x = self.__dict.get(key) (dictionary)
CGet(t) ==
    /\ ktpc[t] = "get"
    /\ IF GetRaises(kcls, kframe[t].key)
       THEN /\ kframe' = [kframe EXCEPT ![t] = IdleKFrame]
            /\ ktpc' = [ktpc EXCEPT ![t] = "idle"]
       ELSE LET e == ConcurrentGet(kcls, Coll, kframe[t].key)
                at == IF kcls = "ConcurrentEventHandlerList"
                      THEN AfterGet(kframe[t].call, e) ELSE "get_rel"
            IN  /\ kframe' = Onward(t, at, e)
                /\ ktpc' = [ktpc EXCEPT ![t] = at]
    /\ UNCHANGED <<gothers, budget, kcls, elist, edict, clock, kcalls>>

\* ConcurrentEventHandlerDict.__getitem__: self.__lock.release(); return x
CGetRelease(t) ==
    /\ ktpc[t] = "get_rel"
    /\ clock' = "free"
    /\ LET at == AfterGet(kframe[t].call, kframe[t].e) IN
           /\ kframe' = Onward(t, at, kframe[t].e)
           /\ ktpc' = [ktpc EXCEPT ![t] = at]
    /\ UNCHANGED <<gothers, budget, kcls, elist, edict, kcalls>>

\* e -= value: VolatileEvent.__isub__, self._lock.acquire()
CEventSubAcquire(t) ==
    /\ ktpc[t] = "ev_sub_acq"
    /\ LET i == EntryOf(Coll, kframe[t].e) IN
           /\ Acquirable(Coll[i].lk)
           /\ SetColl([Coll EXCEPT ![i].lk = t])
    /\ ktpc' = [ktpc EXCEPT ![t] = "ev_sub_scan"]
    /\ UNCHANGED <<gothers, budget, kcls, clock, kframe, kcalls>>

\* e -= value: super().__isub__(value), the for loop up to its match
CEventSubScan(t) ==
    /\ ktpc[t] = "ev_sub_scan"
    /\ LET i == EntryOf(Coll, kframe[t].e) IN
           kframe' = [kframe EXCEPT ![t].at = EventISub(Coll[i].hs, kframe[t].v).at]
    /\ ktpc' = [ktpc EXCEPT ![t] = "ev_sub_del"]
    /\ UNCHANGED <<gothers, budget, kcls, elist, edict, clock, kcalls>>

\* e -= value: super().__isub__(value), del self.__handlers[i]
CEventSubDelete(t) ==
    /\ ktpc[t] = "ev_sub_del"
    /\ LET i == EntryOf(Coll, kframe[t].e) IN
           SetColl([Coll EXCEPT ![i].hs = Deleted(@, kframe[t].at)])
    /\ ktpc' = [ktpc EXCEPT ![t] = "ev_sub_rel"]
    /\ UNCHANGED <<gothers, budget, kcls, clock, kframe, kcalls>>

\* e -= value: self._lock.release(); remove_handler returns
CEventSubRelease(t) ==
    /\ ktpc[t] = "ev_sub_rel"
    /\ LET i == EntryOf(Coll, kframe[t].e) IN
           SetColl([Coll EXCEPT ![i].lk = "free"])
    /\ ktpc' = [ktpc EXCEPT ![t] = "idle"]
    /\ kframe' = [kframe EXCEPT ![t] = IdleKFrame]
    /\ UNCHANGED <<gothers, budget, kcls, clock, kcalls>>

\* e(...): VolatileEvent.__call__, self._lock.acquire()
CEventCallAcquire(t) ==
    /\ ktpc[t] = "ev_call_acq"
    /\ LET i == EntryOf(Coll, kframe[t].e) IN
           /\ Acquirable(Coll[i].lk)
           /\ SetColl([Coll EXCEPT ![i].lk = t])
    /\ ktpc' = [ktpc EXCEPT ![t] = "ev_call_copy"]
    /\ UNCHANGED <<gothers, budget, kcls, clock, kframe, kcalls>>

\* e(...): handlers = [*self]
CEventCallCopy(t) ==
    /\ ktpc[t] = "ev_call_copy"
    /\ LET i == EntryOf(Coll, kframe[t].e) IN
           kframe' = [kframe EXCEPT ![t].snap = VSnapshot(Coll[i].hs), ![t].i = 0]
    /\ ktpc' = [ktpc EXCEPT ![t] = "ev_call_rel"]
    /\ UNCHANGED <<gothers, budget, kcls, elist, edict, clock, kcalls>>

\* e(...): self._lock.release()
CEventCallRelease(t) ==
    /\ ktpc[t] = "ev_call_rel"
    /\ LET i == EntryOf(Coll, kframe[t].e) IN
           SetColl([Coll EXCEPT ![i].lk = ReleaseAfterCopy(t)])
    /\ ktpc' = [ktpc EXCEPT ![t] = "ev_call_loop"]
    /\ UNCHANGED <<gothers, budget, kcls, clock, kframe, kcalls>>

\* e(...): the for statement takes the next entry of the copy and calls it
CEventCallNext(t) ==
    /\ ktpc[t] = "ev_call_loop"
    /\ kframe[t].i < Len(kframe[t].snap)
    /\ kframe' = [kframe EXCEPT ![t].i = @ + 1]
    /\ ktpc' = [ktpc EXCEPT ![t] = "ev_handler"]
    /\ UNCHANGED <<gothers, budget, kcls, elist, edict, clock, kcalls>>

\* e(...): the for statement finds no further entry; invoke returns
CEventCallEnd(t) ==
    /\ ktpc[t] = "ev_call_loop"
    /\ kframe[t].i >= Len(kframe[t].snap)
    /\ kframe' = [kframe EXCEPT ![t] = IdleKFrame]
    /\ ktpc' = [ktpc EXCEPT ![t] = "idle"]
    /\ UNCHANGED <<gothers, budget, kcls, elist, edict, clock, kcalls>>

\* the handler thread t is running returns
CHandlerReturn(t) ==
    /\ ktpc[t] = "ev_handler"
    /\ ktpc' = [ktpc EXCEPT ![t] = "ev_call_loop"]
    /\ UNCHANGED <<gothers, budget, kcls, elist, edict, clock, kframe, kcalls>>

\* the handler thread t is running raises: invoke ends with the exception
CHandlerRaise(t) ==
    /\ ktpc[t] = "ev_handler"
    /\ kframe' = [kframe EXCEPT ![t] = IdleKFrame]
    /\ ktpc' = [ktpc EXCEPT ![t] = "idle"]
    /\ UNCHANGED <<gothers, budget, kcls, elist, edict, clock, kcalls>>

\* the statements of collection[key], remove_handler and invoke
GetStep(t) ==
    \/ CGetAcquire(t)
    \/ CGet(t)
    \/ CGetRelease(t)
    \/ CEventSubAcquire(t)
    \/ CEventSubScan(t)
    \/ CEventSubDelete(t)
    \/ CEventSubRelease(t)
    \/ CEventCallAcquire(t)
    \/ CEventCallCopy(t)
    \/ CEventCallRelease(t)
    \/ CEventCallNext(t)
    \/ CEventCallEnd(t)
    \/ CHandlerReturn(t)
    \/ CHandlerRaise(t)

\* the statements of add_handler
AddHandlerStep(t) ==
    \/ CAddAcquire(t)
    \/ CAddGet(t)
    \/ CAddNew(t)
    \/ CAddReleaseNew(t)
    \/ CAddRelease(t)
    \/ CEventAddAcquire(t)
    \/ CEventAddBody(t)
    \/ CEventAddRelease(t)

NextConcurrentAdd ==
    \E t \in KThreads :
        \/ \E k \in Keys, v \in KHandlers : CAddBegin(t, k, v)
        \/ AddHandlerStep(t)

SpecConcurrentAdd == InitConcurrent /\ [][NextConcurrentAdd]_vars

\* the threads that call anything on the collection
NextConcurrent ==
    \E t \in Threads :
        \/ \E k \in Keys, v \in KHandlers : CAddBegin(t, k, v)
        \/ AddHandlerStep(t)
        \/ \E k \in Keys : CGetBegin(t, "lookup", k, "none")
        \/ \E k \in Keys, v \in KHandlers : CGetBegin(t, "remove_handler", k, v)
        \/ \E k \in Keys : CGetBegin(t, "invoke", k, "none")
        \/ GetStep(t)

SpecConcurrent == InitConcurrent /\ [][NextConcurrent]_vars

(***************************************************************************)
(* Handlers that call the collection they are invoked from.  The call a    *)
(* handler makes runs on the handler's thread: the invocation the handler  *)
(* belongs to waits on kstack until the call is over.  The keys include    *)
(* one that has no hash.                                                   *)
(***************************************************************************)
ReentrantKeys == {"k1", "k2"} \cup Unhashable

\* the variables a call made by a handler leaves alone
hothers == <<cvars, ivars, tvars, kop, kadded, pvars, avars, uvars>>

\* the handler thread t is running makes a call: its invocation is set aside
Suspended(t) == [kstack EXCEPT ![t] = <<kframe[t]>> \o @]

\* the handler thread t is running calls add_handler(k, v)
CHandlerAdds(t, k, v) ==
    /\ ktpc[t] = "ev_handler"
    /\ budget > 0
    /\ budget' = budget - 1
    /\ kstack' = Suspended(t)
    /\ kframe' = [kframe EXCEPT ![t] = [IdleKFrame EXCEPT !.call = "add_handler",
                                                         !.key = k, !.v = v]]
    /\ ktpc' = [ktpc EXCEPT ![t] = "ah_acq"]
    /\ kcalls' = Issued(k, v)
    /\ UNCHANGED <<hothers, kcls, elist, edict, clock>>

\* the handler thread t is running calls collection[k], remove_handler(k, v)
\* or invoke(k)
CHandlerGets(t, call, k, v) ==
    /\ ktpc[t] = "ev_handler"
    /\ budget > 0
    /\ budget' = budget - 1
    /\ kstack' = Suspended(t)
    /\ kframe' = [kframe EXCEPT ![t] = [IdleKFrame EXCEPT !.call = call,
                                                         !.key = k, !.v = v]]
    /\ ktpc' = [ktpc EXCEPT ![t] = IF kcls = "ConcurrentEventHandlerList"
                                   THEN "get" ELSE "get_acq"]
    /\ UNCHANGED <<hothers, kcls, elist, edict, clock, kcalls>>

\* the call a handler made is over, by return or by exception: the handler
\* goes on
CHandlerResumes(t) ==
    /\ ktpc[t] = "idle"
    /\ kstack[t] # <<>>
    /\ kframe' = [kframe EXCEPT ![t] = Head(kstack[t])]
    /\ kstack' = [kstack EXCEPT ![t] = Tail(@)]
    /\ ktpc' = [ktpc EXCEPT ![t] = "ev_handler"]
    /\ UNCHANGED <<hothers, budget, kcls, elist, edict, clock, kcalls>>

\* the statements thread t executes once a call is made
ReentrantStep(t) ==
    \/ AddHandlerStep(t)
    \/ GetStep(t)
    \/ CHandlerResumes(t)

NextReentrant ==
    \E t \in Threads :
        \/ \E k \in ReentrantKeys, v \in KHandlers : CAddBegin(t, k, v)
        \/ \E k \in ReentrantKeys : CGetBegin(t, "lookup", k, "none")
        \/ \E k \in ReentrantKeys, v \in KHandlers :
               CGetBegin(t, "remove_handler", k, v)
        \/ \E k \in ReentrantKeys : CGetBegin(t, "invoke", k, "none")
        \/ \E k \in ReentrantKeys, v \in KHandlers : CHandlerAdds(t, k, v)
        \/ \E k \in ReentrantKeys : CHandlerGets(t, "lookup", k, "none")
        \/ \E k \in ReentrantKeys, v \in KHandlers :
               CHandlerGets(t, "remove_handler", k, v)
        \/ \E k \in ReentrantKeys : CHandlerGets(t, "invoke", k, "none")
        \/ ReentrantStep(t)

\* every thread that has a statement to execute gets to execute it
SpecReentrant ==
    /\ InitConcurrent
    /\ [][NextReentrant]_vars
    /\ \A t \in Threads : WF_vars(ReentrantStep(t))

(***************************************************************************)
(* Lookups on a ConcurrentEventHandlerList while add_handler calls are     *)
(* under way.  __getitem__ takes no lock: it reads self.__head once and    *)
(* walks the entries, which are tuples and never change.  kop records what *)
(* each lookup returned.                                                   *)
(***************************************************************************)
InitLookups == InitConcurrent /\ kcls = "ConcurrentEventHandlerList"

\* the entry of the lookup record: the key asked for, the container returned
\* and the number of handlers the container held at that moment
Found(es, key) ==
    LET e == ListGetItem(es, key) IN
    [key |-> KeyValue(key),
     ret |-> e,
     n |-> IF e = Absent THEN 0 ELSE Len(es[EntryOf(es, e)].hs)]

\* collection[key] of thread t: next = self.__head, the walk and the return
CLookup(t) ==
    /\ ktpc[t] = "get"
    /\ kframe[t].call = "lookup"
    /\ kop' = Append(kop, Found(Coll, kframe[t].key))
    /\ kframe' = [kframe EXCEPT ![t] = IdleKFrame]
    /\ ktpc' = [ktpc EXCEPT ![t] = "idle"]
    /\ UNCHANGED <<cvars, ivars, tvars, kadded, pvars, avars, uvars, kstack,
                   budget, kcls, elist, edict, clock, kcalls>>

NextLookups ==
    \E t \in Threads :
        \/ \E k \in Keys, v \in KHandlers : CAddBegin(t, k, v)
        \/ AddHandlerStep(t)
        \/ \E k \in Keys : CGetBegin(t, "lookup", k, "none")
        \/ CLookup(t)

SpecLookups == InitLookups /\ [][NextLookups]_vars

(***************************************************************************)
(* Every keyed collection: the plain ones under the calls of one thread,   *)
(* the concurrent ones under the calls of several.                         *)
(***************************************************************************)
InitAllKeyed == InitKeyed \/ InitConcurrent

NextAllKeyed ==
    \/ kcls = "none" /\ NextKeyed
    \/ kcls # "none" /\ NextConcurrent

SpecAllKeyed == InitAllKeyed /\ [][NextAllKeyed]_vars

(***************************************************************************)
(* Claims about the handler list (SpecContainer).                          *)
(***************************************************************************)
IdentityRank(n) == [i \in 1..n |-> i]

\* the highest position of prev that holds the object x itself
LastIndexOf(x, s) == CHOOSE i \in 1..Len(s) :
    /\ s[i] = x
    /\ \A j \in (i + 1)..Len(s) : s[j] # x

\* C4: after any sequence of seeding, add and remove, the entries iterate in
\* the order in which they were added: every entry's rank by time of addition
\* is its position, add puts the new entry last and makes the list one
\* longer, remove drops at most one position and moves nothing else, and
\* iteration yields the list as it stands.
C4_IterationInAdditionOrder ==
    /\ order = IdentityRank(Len(handlers))
    /\ op.kind = "add" =>
          /\ Len(handlers) = Len(prev) + 1
          /\ SubSeq(handlers, 1, Len(prev)) = prev
          /\ handlers[Len(handlers)] = op.h
    /\ op.kind = "remove" =>
          \E at \in 0..Len(prev) : handlers = Deleted(prev, at)
    /\ op.kind = "iter" => op.ret = handlers /\ handlers = prev

\* C4 witness: an Event that was added to and removed from is iterated and
\* yields three entries, two of them different objects.
C4_Witness ==
    /\ cls = "Event"
    /\ op.kind = "iter"
    /\ Len(op.ret) = 3
    /\ op.ret[1] # op.ret[2]
    /\ op.ret[1] = op.ret[3]

\* C5: remove(h) on a container (Event or Delegate) that holds the object h at
\* several positions deletes the entry at the highest of these positions and
\* nothing else, so the list gets one shorter.
C5_RemovesHighestOccurrence ==
    (op.kind = "remove" /\ Count(op.h, prev) >= 2) =>
        /\ handlers = DelAt(prev, LastIndexOf(op.h, prev))
        /\ Len(handlers) = Len(prev) - 1

\* C6: remove(h) on an Event that does not hold the object h raises nothing
\* and leaves the list as it was, also when the list is empty or holds an
\* object equal to h.
C6_RemoveAbsentIsNoOp ==
    (cls = "Event" /\ op.kind = "remove" /\ op.h \notin Range(prev)) =>
        /\ op.err = "none"
        /\ handlers = prev

\* C6 witness: "h1b" is removed from an Event that holds "h1", which equals
\* it, and the list is what it was.
C6_Witness ==
    /\ cls = "Event"
    /\ op.kind = "remove"
    /\ op.h = "h1b"
    /\ prev = <<"h1", "h2">>
    /\ handlers = prev

\* C7: in every container class, remove(b) removes nothing from a container
\* that holds an object equal to b but not b itself.
C7_RemoveMatchesByIdentity ==
    ( /\ op.kind = "remove"
      /\ op.h \notin Range(prev)
      /\ \E i \in 1..Len(prev) : PyEq(prev[i], op.h) ) =>
        handlers = prev

\* C8: contains(h) is true exactly when an entry of the list is the object h.
C8_ContainsByIdentity ==
    op.kind = "contains" => (op.ret <=> op.h \in Range(prev))

(***************************************************************************)
(* Claims about the synchronous invocation (SpecInvoke).                   *)
(***************************************************************************)
\* C1: a handler that a running handler subscribes during invocation I is not
\* called by I beyond the entries it already had when I started, and every
\* invocation that starts after I and runs to its end calls it, as long as it
\* stays subscribed.
C1_SubscribedInFlightCalledLater ==
    /\ \A g \in InvObjects :
          sub[g] = "cur" => Count(g, CalledHandlers) <= Count(g, atStart)
    /\ result.kind = "returned" =>
          \A g \in InvObjects : sub[g] = "prev" => g \in Range(CalledHandlers)

\* C1 witness: an invocation has returned that called "h1" and then "h2",
\* where "h2" was subscribed by a handler during an earlier invocation.
C1_Witness ==
    /\ pc = "idle"
    /\ result.kind = "returned"
    /\ sub["h2"] = "prev"
    /\ CalledHandlers = <<"h1", "h2">>

\* C1, the in-flight case: an invocation of <<"h1">> has returned, "h2" was
\* subscribed by the handler while it ran, and only "h1" was called.
C1_WitnessInFlight ==
    /\ pc = "idle"
    /\ result.kind = "returned"
    /\ sub["h2"] = "cur"
    /\ atStart = <<"h1">>
    /\ handlers = <<"h1", "h2">>
    /\ CalledHandlers = <<"h1">>

\* C2: unsubscribing during an invocation changes the container at once and the
\* invocation not at all: the calls made so far are the leading entries of the
\* list as it was when the invocation started, an invocation that returns has
\* called a handler detached in flight as often as it was registered at the
\* start, and the container holds that handler less often than at the start.
C2_UnsubscribeAffectsLaterOnly ==
    /\ Len(calls) <= Len(atStart)
    /\ CalledHandlers = SubSeq(atStart, 1, Len(calls))
    /\ \A h \in unsub : Count(h, handlers) < Count(h, atStart)
    /\ result.kind = "returned" =>
          \A h \in unsub : Count(h, CalledHandlers) = Count(h, atStart)

\* C2 witness: the invocation of <<"h1", "h2">> has returned after calling
\* both once, "h2" was unsubscribed during it and the container is <<"h1">>.
C2_Witness ==
    /\ pc = "idle"
    /\ result.kind = "returned"
    /\ atStart = <<"h1", "h2">>
    /\ unsub = {"h2"}
    /\ CalledHandlers = <<"h1", "h2">>
    /\ handlers = <<"h1">>

\* C3: an invocation in which no handler fails calls every entry of the list it
\* started with once per entry, in list order, each with the positional and
\* keyword arguments the invocation was given.
C3_CallsAllInOrderWithArgs ==
    result.kind = "returned" =>
        calls = [i \in 1..Len(atStart) |-> [h |-> atStart[i], args |-> args]]

\* C3 witness: <<"h1", "h2", "h1">> was invoked with keyword arguments and
\* returned: "h1" was called twice.
C3_Witness ==
    /\ result.kind = "returned"
    /\ atStart = <<"h1", "h2", "h1">>
    /\ args.kw # {}
    /\ Len(calls) = 3

\* C9: when the i-th handler of an invocation raises, the invocation ends with
\* that exception, the calls made are those of entries 1..i of the list the
\* invocation started with, each once, no later entry is called, and the
\* container is as it was at the start unless a handler or a later operation
\* changed it.
C9_RaisePropagatesAndAborts ==
    thrown.exc # "none" =>
        /\ pc = "idle"
        /\ result = [kind |-> "raised", exc |-> thrown.exc]
        /\ Len(calls) = thrown.at
        /\ thrown.at <= Len(atStart)
        /\ CalledHandlers = SubSeq(atStart, 1, thrown.at)
        /\ ~mutated => handlers = atStart

\* C9 witness: the second of three handlers raised KeyError, the third was not
\* called and the container is unchanged.
C9_Witness ==
    /\ thrown = [exc |-> "KeyError", at |-> 2]
    /\ result.kind = "raised"
    /\ Len(atStart) = 3
    /\ Len(calls) = 2
    /\ ~mutated
    /\ handlers = atStart

(***************************************************************************)
(* Claims about VolatileEvent (SpecVolatile).                              *)
(***************************************************************************)
\* C10: no thread holds the lock of a VolatileEvent while a handler it called
\* runs, so a thread that reaches an acquire, also the acquire of a += or -=
\* executed by its own handler, never waits for a lock it holds itself; and
\* whoever holds the lock is inside a critical section, which ends with a
\* release and waits for nothing.
C10_HandlersRunOutsideLock ==
    /\ \A t \in Threads : tpc[t] \in {"call_loop", "handler"} => lock # t
    /\ \A t \in Threads : tpc[t] \in AcquirePcs => lock # t
    /\ lock # "free" => tpc[lock] \in CriticalPcs

\* C10 witness: the first handler of an invocation by thread "t1" executes +=
\* on the event that called it: the += has acquired the lock and appended
\* "h2" to the list, of which the invocation iterates the copy <<"h1">>.
C10_Witness ==
    /\ tpc["t1"] = "add_rel"
    /\ frame["t1"].i = 1
    /\ frame["t1"].snap = <<"h1">>
    /\ frame["t1"].v = "h2"
    /\ handlers = <<"h1", "h2">>
    /\ lock = "t1"

(***************************************************************************)
(* Claims about concurrent calls on one VolatileEvent (SpecVolatileRun).   *)
(***************************************************************************)
\* the list s without the highest entry that is x (s itself when none is)
WithoutLast(s, x) ==
    IF \E i \in 1..Len(s) : s[i] = x THEN DelAt(s, LastIndexOf(x, s)) ELSE s

\* when every call has returned, no thread holds the lock
C11_LockFreeAtRest == (\A t \in Threads : tpc[t] = "idle") => lock = "free"

\* the handler list changes only at the one statement at which a call of +=
\* or -= takes effect, executed by the holder of the lock, and there it
\* becomes the result of the whole call applied to the list as it is then
C11_TakesEffectAtOnce ==
    /\ handlers' # handlers =>
           \E t \in Threads : lock = t /\ tpc[t] \in {"add_body", "sub_del"}
                                       /\ tpc'[t] # tpc[t]
    /\ \A t \in Threads :
           tpc[t] = "add_body" /\ tpc'[t] = "add_rel" =>
               handlers' = Append(handlers, frame[t].v)
    /\ \A t \in Threads :
           tpc[t] = "sub_del" /\ tpc'[t] = "sub_rel" =>
               handlers' = WithoutLast(handlers, frame[t].v)

\* C11: under every interleaving of the +=, -= and event(...) calls of
\* several threads on one VolatileEvent, every call returns, the lock is free
\* once all have returned, and the handler list is the result of the adds and
\* removes applied one after the other in the order in which they took
\* effect, each between its call and its return: no entry is lost or doubled.
C11_ConcurrentCallsLinearize ==
    /\ [](C11_LockFreeAtRest)
    /\ [][C11_TakesEffectAtOnce]_vars
    /\ \A t \in Threads : (tpc[t] # "idle") ~> (tpc[t] = "idle")

\* thread t1 is appending h1 under the lock while thread t2 waits for the
\* lock to remove h1, and the last call of the run has been issued
C11_Witness ==
    /\ tpc["t1"] = "add_body" /\ frame["t1"].v = "h1" /\ lock = "t1"
    /\ tpc["t2"] = "sub_acq" /\ frame["t2"].v = "h1"
    /\ budget = 0

(***************************************************************************)
(* Claims about add_handler on a concurrent keyed collection               *)
(* (SpecConcurrentAdd).                                                    *)
(***************************************************************************)
\* the positions of the entries whose key equals key
EntriesFor(es, key) == {i \in 1..Len(es) : KeyValue(es[i].key) = KeyValue(key)}

\* how often the containers held for key hold the handler v
HeldFor(es, key, v) ==
    IF EntriesFor(es, key) = {} THEN 0
    ELSE Count(v, es[CHOOSE i \in EntriesFor(es, key) : TRUE].hs)

\* C12: threads that call add_handler(key, h) concurrently on a
\* ConcurrentEventHandlerList or ConcurrentEventHandlerDict, for a key that
\* had no container, end under every interleaving with exactly one container
\* for the key, and it holds each h as often as add_handler(key, h) was
\* called: no subscription is lost and no second container exists.  On the
\* way, a handler is held at least as often as its calls have returned and
\* at most as often as they were issued.
C12_ConcurrentFirstAddsShareOneContainer ==
    \A k \in KeyValues :
        /\ Cardinality(EntriesFor(Coll, k)) <= 1
        /\ \A v \in KHandlers :
               /\ kcalls[<<k, v>>].returned <= HeldFor(Coll, k, v)
               /\ HeldFor(Coll, k, v) <= kcalls[<<k, v>>].issued
        /\ (\E v \in KHandlers : kcalls[<<k, v>>].returned > 0) =>
               Cardinality(EntriesFor(Coll, k)) = 1
        /\ (\A t \in KThreads : ktpc[t] = "idle") =>
               \A v \in KHandlers : HeldFor(Coll, k, v) = kcalls[<<k, v>>].issued

\* three threads have called add_handler for the unused key k1 (one of them
\* through the equal key k1b) at the same time: t1 holds the collection's
\* lock and is creating the container, t2 and t3 wait for the lock
C12_Witness ==
    /\ Coll = <<>>
    /\ ktpc["t1"] = "ah_new" /\ kframe["t1"].key = "k1" /\ kframe["t1"].v = "h1"
    /\ ktpc["t2"] = "ah_acq" /\ kframe["t2"].key = "k1b" /\ kframe["t2"].v = "h2"
    /\ ktpc["t3"] = "ah_acq" /\ kframe["t3"].key = "k1" /\ kframe["t3"].v = "h1"

\* the three calls of C12_Witness have returned: one container, [h1, h2, h1]
\* or another order of the three
C12_WitnessAtRest ==
    /\ \A t \in KThreads : ktpc[t] = "idle"
    /\ Len(Coll) = 1
    /\ Len(Coll[1].hs) = 3
    /\ kcalls[<<"k1", "h1">>].returned = 2
    /\ kcalls[<<"k1", "h2">>].returned = 1

(***************************************************************************)
(* Claims about the keyed collections (SpecAllKeyed, SpecKeyed,            *)
(* SpecKeyedAny).                                                          *)
(***************************************************************************)
\* no two entries of es have equal keys, and none shares its container
OneEntryPerKey(es) ==
    \A i, j \in 1..Len(es) :
        (KeyValue(es[i].key) = KeyValue(es[j].key) \/ es[i].ev = es[j].ev) => i = j

\* C13: in every reachable state of a keyed collection, of EventHandlerList
\* and EventHandlerDict under the calls of one thread and of the concurrent
\* classes under every interleaving, a key has at most one container: no two
\* entries hold keys that compare equal.
C13_AtMostOneContainerPerKey == OneEntryPerKey(elist) /\ OneEntryPerKey(edict)

\* add_handler has been called with k1 and then with the equal key k1b: the
\* list holds one entry, created with k1, of two handlers
C13_Witness ==
    /\ kcls = "none"
    /\ kop.kind = "add_handler" /\ kop.key = "k1b"
    /\ Len(elist) = 1 /\ elist[1].key = "k1" /\ Len(elist[1].hs) = 2
    /\ Len(edict) = 1 /\ edict[1].key = "k1" /\ Len(edict[1].hs) = 2

\* two threads have added to k1 and to the equal key k1b on a concurrent
\* collection, and both calls have returned
C13_WitnessConcurrent ==
    /\ kcls \in ConcurrentClasses
    /\ \A t \in KThreads : ktpc[t] = "idle"
    /\ Len(Coll) = 1 /\ Len(Coll[1].hs) = 2
    /\ kcalls[<<"k1", "h1">>].returned = 1
    /\ kcalls[<<"k1", "h2">>].returned = 1

\* the key k keeps the container a lookup finds for it
KeepsContainer(k) ==
    /\ ListGetItem(elist, k) # Absent => ListGetItem(elist', k) = ListGetItem(elist, k)
    /\ DictGet(edict, k) # Absent => DictGet(edict', k) = DictGet(edict, k)

\* C14: once add_handler(key, h) has created the container of a key, every
\* later lookup of the key finds that same container object, whatever calls
\* of add_handler, remove_handler and invoke follow; removing the last
\* handler leaves the empty container in place.
C14_ContainerStaysOnceCreated ==
    [][/\ \A k \in Keys : KeepsContainer(k)
       /\ (kcls = "none" /\ kop'.kind = "add_handler") =>
              /\ ListGetItem(elist', kop'.key) # Absent
              /\ DictGet(edict', kop'.key) # Absent]_vars

\* remove_handler has removed the last handler of k1 while k2 has a
\* container: the container of k1, the first that was created, is still what
\* a lookup of k1 and of k1b finds, and it is empty
C14_Witness ==
    /\ kcls = "none"
    /\ kop.kind = "remove_handler" /\ kop.key = "k1"
    /\ Len(elist) = 2 /\ Len(edict) = 2
    /\ ListGetItem(elist, "k1b") = 1 /\ elist[EntryOf(elist, 1)].hs = <<>>
    /\ DictGet(edict, "k1b") = 1 /\ edict[EntryOf(edict, 1)].hs = <<>>

\* C15: a lookup of a key that add_handler was never called with returns
\* None, and no lookup creates a container or changes the collection.
C15_LookupOfUnusedKeyIsAbsent ==
    [][kop'.kind = "lookup" =>
           /\ elist' = elist /\ edict' = edict
           /\ KeyValue(kop'.key) \notin kadded =>
                  /\ kop'.lret = Absent /\ kop'.lerr = "none"
                  /\ kop'.dret = Absent /\ kop'.derr = "none"
                  /\ \A i \in 1..Len(elist') : elist'[i].key # kop'.key
                  /\ \A i \in 1..Len(edict') : edict'[i].key # kop'.key]_vars

\* k2, which add_handler was never called with, has just been looked up in
\* collections that hold a container for k1
C15_Witness ==
    /\ kop.kind = "lookup" /\ kop.key = "k2" /\ "k2" \notin kadded
    /\ kop.lret = Absent /\ kop.dret = Absent
    /\ Len(elist) = 1 /\ Len(edict) = 1 /\ "k1" \in kadded

\* es2 is es with the handler list of the container of key replaced by hs,
\* every entry in its place and every other entry as it was
OnlyChanged(es, es2, key, hs) ==
    /\ Len(es2) = Len(es)
    /\ \A i \in 1..Len(es) :
           IF KeyValue(es[i].key) = KeyValue(key)
           THEN es2[i] = [es[i] EXCEPT !.hs = hs]
           ELSE es2[i] = es[i]

\* the handler list of the container es holds for key
HandlersFor(es, key) == es[CHOOSE i \in EntriesFor(es, key) : TRUE].hs

\* remove_handler(key, v) took es to es2 as the claim C16 says
RemovedAsClaimed(es, es2, key, v) ==
    IF EntriesFor(es, key) = {} THEN es2 = es
    ELSE OnlyChanged(es, es2, key, WithoutLast(HandlersFor(es, key), v))

\* C16: remove_handler(key, h) for a key without a container raises nothing,
\* creates no container and leaves every container as it was; for a key with
\* a container it does what the container's own -= h does (the highest entry
\* that is h goes, if there is one) and leaves the others as they were.
C16_RemoveHandlerDelegates ==
    [][kop'.kind = "remove_handler" =>
           /\ kop'.lerr = "none" /\ kop'.derr = "none"
           /\ RemovedAsClaimed(elist, elist', kop'.key, kop'.h)
           /\ RemovedAsClaimed(edict, edict', kop'.key, kop'.h)]_vars

\* remove_handler(k2, h1) has just been called, k2 has no container, and k1
\* holds [h1, h1]
C16_Witness ==
    /\ kop.kind = "remove_handler" /\ kop.key = "k2" /\ kop.h = "h1"
    /\ EntriesFor(elist, "k2") = {} /\ EntriesFor(edict, "k2") = {}
    /\ Len(elist) = 1 /\ elist[1].hs = <<"h1", "h1">>
    /\ Len(edict) = 1 /\ edict[1].hs = <<"h1", "h1">>

\* remove_handler(k1b, h1) has just taken the second h1 out of the container
\* of k1, which held [h1, h1], and k2 holds a container of h1
C16_WitnessDelegated ==
    /\ kop.kind = "remove_handler" /\ kop.key = "k1b" /\ kop.h = "h1"
    /\ Len(elist) = 2 /\ HandlersFor(elist, "k1") = <<"h1">>
    /\ HandlersFor(elist, "k2") = <<"h1">>
    /\ Len(edict) = 2 /\ HandlersFor(edict, "k1") = <<"h1">>

\* the calls the claim C17 expects of invoke(key, a) on es
CallsAsClaimed(es, key, a) ==
    IF EntriesFor(es, key) = {} THEN <<>>
    ELSE [j \in 1..Len(HandlersFor(es, key)) |->
              [h |-> HandlersFor(es, key)[j], args |-> a]]

\* C17: invoke(key, args) calls the handlers of the container of key, each
\* entry once, in the order of subscription and with the arguments given, and
\* no handler of another key; for a key without a container it calls nothing
\* and raises nothing.  It creates no container and changes none.
C17_InvokeCallsTheKeysHandlers ==
    [][kop'.kind = "invoke" =>
           /\ elist' = elist /\ edict' = edict
           /\ kop'.lerr = "none" /\ kop'.derr = "none"
           /\ kop'.lcalls = CallsAsClaimed(elist, kop'.key, kop'.args)
           /\ kop'.dcalls = CallsAsClaimed(edict, kop'.key, kop'.args)]_vars

\* invoke(k1b, ...) with keyword arguments has called h2 and then h1, the
\* handlers of k1 in the order they were added, and not the handler of k2,
\* whose container was created last
C17_Witness ==
    /\ kop.kind = "invoke" /\ kop.key = "k1b" /\ kop.args.kw # {}
    /\ Len(kop.lcalls) = 2 /\ kop.lcalls[1].h = "h2" /\ kop.lcalls[2].h = "h1"
    /\ kop.lcalls[1].args = kop.args
    /\ Len(elist) = 2 /\ elist[1].key = "k2" /\ elist[1].hs = <<"h1">>
    /\ kop.dcalls = kop.lcalls

\* invoke(k2, ...) has just been called, k2 has no container, and k1 holds h1
C17_WitnessAbsent ==
    /\ kop.kind = "invoke" /\ kop.key = "k2"
    /\ EntriesFor(elist, "k2") = {} /\ EntriesFor(edict, "k2") = {}
    /\ kop.lcalls = <<>> /\ kop.dcalls = <<>>
    /\ Len(elist) = 1 /\ elist[1].hs = <<"h1">>

\* es2 is es with one more entry, a new container of the one handler v held
\* under the key object key, and every entry of es as it was
CreatedAsClaimed(es, es2, key, v) ==
    \E i \in 1..Len(es2) :
        /\ es2[i].key = key /\ es2[i].hs = <<v>>
        /\ \A j \in 1..Len(es) : es[j].ev # es2[i].ev
        /\ DelAt(es2, i) = es

\* add_handler(key, v) took es to es2 as the claim C18 says
AddedAsClaimed(es, es2, key, v) ==
    IF EntriesFor(es, key) = {} THEN CreatedAsClaimed(es, es2, key, v)
    ELSE OnlyChanged(es, es2, key, Append(HandlersFor(es, key), v))

\* C18: add_handler(key, h) creates a container whose handler list is [h]
\* when the key has none, and otherwise appends h at the end of the key's
\* container; the containers of all other keys stay as they were.
C18_AddHandlerCreatesOrAppends ==
    [][kop'.kind = "add_handler" =>
           /\ kop'.lerr = "none" /\ kop'.derr = "none"
           /\ AddedAsClaimed(elist, elist', kop'.key, kop'.h)
           /\ AddedAsClaimed(edict, edict', kop'.key, kop'.h)]_vars

\* add_handler(k2, h2) has just created the container of k2 while k1 holds
\* [h1, h2]
C18_Witness ==
    /\ kop.kind = "add_handler" /\ kop.key = "k2" /\ kop.h = "h2"
    /\ Len(elist) = 2 /\ HandlersFor(elist, "k2") = <<"h2">>
    /\ HandlersFor(elist, "k1") = <<"h1", "h2">>
    /\ Len(edict) = 2 /\ HandlersFor(edict, "k2") = <<"h2">>
    /\ HandlersFor(edict, "k1") = <<"h1", "h2">>

\* add_handler(k1b, h1) has just appended h1 to the container of k1, which
\* held [h2], while k2 holds [h2]
C18_WitnessAppend ==
    /\ kop.kind = "add_handler" /\ kop.key = "k1b" /\ kop.h = "h1"
    /\ Len(elist) = 2 /\ HandlersFor(elist, "k1") = <<"h2", "h1">>
    /\ HandlersFor(elist, "k2") = <<"h2">>
    /\ Len(edict) = 2 /\ HandlersFor(edict, "k1") = <<"h2", "h1">>

\* the list and the dictionary hold a container for the same keys of K, with
\* the same handler lists
SameContainers(K) ==
    \A k \in K :
        /\ (EntriesFor(elist, k) = {}) <=> (EntriesFor(edict, k) = {})
        /\ EntriesFor(elist, k) # {} /\ EntriesFor(edict, k) # {} =>
               HandlersFor(elist, k) = HandlersFor(edict, k)

\* the last call had the same outcome on the list and on the dictionary
SameOutcome ==
    /\ kop.lerr = kop.derr
    /\ (kop.lret = Absent) <=> (kop.dret = Absent)
    /\ kop.lcalls = kop.dcalls

\* C19 as stated: EventHandlerList and EventHandlerDict, run side by side on
\* the same calls of lookup, add_handler, remove_handler and invoke, agree
\* after every call on the keys that have a container, on every container's
\* handler list, on the outcome of the call and on the handlers invoke called.
C19_ListAndDictEquivalent ==
    SameContainers(MixedKeys) /\ SameOutcome

\* C19, amended: they agree on the containers of the hashable keys and on the
\* outcome of every call whose key is hashable.
C19_ListAndDictEquivalentOnHashableKeys ==
    /\ SameContainers({k \in MixedKeys : Hashable(k)})
    /\ Hashable(kop.key) => SameOutcome

\* after calls with k1, k1b and the unhashable key, invoke(k1b, ...) has
\* called h1 and h2 on both; the list holds the container of the unhashable
\* key in front of that of k1, the dictionary holds none for it
C19_Witness ==
    /\ kop.kind = "invoke" /\ kop.key = "k1b"
    /\ Len(kop.lcalls) = 2 /\ kop.lcalls[1].h = "h1" /\ kop.lcalls[2].h = "h2"
    /\ kop.dcalls = kop.lcalls
    /\ Len(elist) = 2 /\ elist[1].key = "u" /\ elist[1].hs = <<"h2", "h2">>
    /\ Len(edict) = 1

(***************************************************************************)
(* Event properties: cs_events/_events.py.  A class gets its properties    *)
(* from the decorator @events(properties=True), which keeps the            *)
(* containers in self._events, or by deriving from EventDispatcher, which  *)
(* keeps them in self.__events.  A property that has no container reads    *)
(* as the shared _empty_event.                                             *)
(***************************************************************************)
PropertyClasses == {"events", "EventDispatcher", "EventDispatcherDelEmpty"}

Instances == {"o1", "o2"}

PHandlers == {"h1", "h2"}

\* the annotated names of the class, as sequences of characters
Attrs == {<<"e", "v", "1">>, <<"e", "v", "2">>, <<"s", "u", "b">>,
          <<"f", "i", "n">>}

\* the names a class annotates: the class made by @events has fin, the
\* classes derived from EventDispatcher do not
Annotations(c) ==
    IF c = "events" THEN Attrs ELSE Attrs \ {<<"f", "i", "n">>}

\* the annotation of a name: Event, or a class derived from it
DeclaredType(name) == IF name = <<"s", "u", "b">> THEN "SubEvent" ELSE "Event"

\* the prefix argument, at its default ""
Prefix == <<>>

\* name.startswith(prefix)
StartsWith(name, prefix) ==
    /\ Len(name) >= Len(prefix)
    /\ SubSeq(name, 1, Len(prefix)) = prefix

\* name[len(prefix)]: the one character that follows the prefix
EventsKey(name) == <<name[Len(Prefix) + 1]>>

\* name[len(event_prefix):]: the name without the prefix
DispatcherKey(name) == SubSeq(name, Len(Prefix) + 1, Len(name))

\* the name create_event is called with, which is the key in the storage
PropertyKey(c, name) ==
    IF c = "events" THEN EventsKey(name) ELSE DispatcherKey(name)

\* the annotation becomes a property: @events takes Event itself only,
\* EventDispatcher every subclass of Event
IsProperty(c, name) ==
    /\ StartsWith(name, Prefix)
    /\ c = "events" => DeclaredType(name) = "Event"

Properties(c) == {name \in Annotations(c) : IsProperty(c, name)}

\* create_event's is_subclass: T is not Event
IsSubclass(c, name) == c # "events" /\ DeclaredType(name) # "Event"

\* the place of _empty_event among the containers
EmptyEvent == 1

TheEmptyEvent == [kind |-> "_EmptyEvent", hs |-> <<>>]

\* the containers at import: _empty_event = _EmptyEvent()
InitialHeap == <<TheEmptyEvent>>

\* dict.__setitem__ and del dict[key]
Put(st, key, v) == (key :> v) @@ st

Drop(st, key) == [x \in DOMAIN st \ {key} |-> st[x]]

\* len(value)
ObjLen(heap, id) ==
    IF heap[id].kind = "_EmptyEvent" THEN 0 ELSE Length(heap[id].hs)

\* value += h: _EmptyEvent returns Event(h), an Event appends and returns itself
ObjIAdd(heap, id, h) ==
    IF heap[id].kind = "_EmptyEvent"
    THEN [heap |-> Append(heap, [kind |-> "Event", hs |-> Construct(<<h>>)]),
          ret |-> Len(heap) + 1]
    ELSE [heap |-> [heap EXCEPT ![id].hs = EventIAdd(@, h)], ret |-> id]

\* value -= h that hands back _empty_event once the list is empty
ObjISubToSentinel(heap, id, h) ==
    IF heap[id].kind = "_EmptyEvent" THEN [heap |-> heap, ret |-> id]
    ELSE LET left == Deleted(heap[id].hs, EventISub(heap[id].hs, h).at) IN
         [heap |-> [heap EXCEPT ![id].hs = left],
          ret |-> IF left = <<>> THEN EmptyEvent ELSE id]

\* value -= h: _EmptyEvent returns itself, an Event deletes the last
\* occurrence and returns itself
ObjISub(heap, id, h) ==
    IF heap[id].kind = "_EmptyEvent"
    THEN [heap |-> heap, ret |-> id]
    ELSE [heap |-> [heap EXCEPT ![id].hs = Deleted(@, EventISub(@, h).at)],
          ret |-> id]

\* fget of a property of a subclass T of Event: a missing container is
\* created, stored and returned
FGetCreate(heap, st, key, T) ==
    IF key \in DOMAIN st
    THEN [heap |-> heap, st |-> st, ret |-> st[key]]
    ELSE [heap |-> Append(heap, [kind |-> T, hs |-> Construct(<<>>)]),
          st |-> Put(st, key, Len(heap) + 1),
          ret |-> Len(heap) + 1]

FGetStoreNew(heap, st, key) == FGetCreate(heap, st, key, "Event")

\* fget of a property of type Event: dict.get(name, _empty_event)
FGetDefault(heap, st, key) ==
    [heap |-> heap,
     st |-> st,
     ret |-> IF key \in DOMAIN st THEN st[key] ELSE EmptyEvent]

FGet(c, heap, st, name) ==
    IF IsSubclass(c, name)
    THEN FGetCreate(heap, st, PropertyKey(c, name), DeclaredType(name))
    ELSE FGetDefault(heap, st, PropertyKey(c, name))

\* fset that replaces the container it finds
FSetReplace(st, key, v) == [st |-> Put(st, key, v), err |-> "none"]

\* fset of @events: dict.setdefault(name, value), and AttributeError when
\* the container it finds is another one
FSetDefault(st, key, v) ==
    IF key \in DOMAIN st
    THEN [st |-> st, err |-> IF st[key] = v THEN "none" ELSE "AttributeError"]
    ELSE [st |-> Put(st, key, v), err |-> "none"]

\* fset that inserts and never replaces
FSetInsertOnly(st, key, v) ==
    IF key \in DOMAIN st THEN [st |-> st, err |-> "none"]
    ELSE [st |-> Put(st, key, v), err |-> "none"]

\* fset of EventDispatcher: self.__events[name] = value
FSetStore(st, key, v) == [st |-> Put(st, key, v), err |-> "none"]

\* fset that stores the value whatever its length
FSetKeepEmpty(heap, st, key, v) == [st |-> Put(st, key, v), err |-> "none"]

\* fset of EventDispatcher with del_empty_event: an empty value deletes
FSetDelEmpty(heap, st, key, v) ==
    IF ObjLen(heap, v) # 0 THEN [st |-> Put(st, key, v), err |-> "none"]
    ELSE IF key \in DOMAIN st THEN [st |-> Drop(st, key), err |-> "none"]
    ELSE [st |-> st, err |-> "none"]

FSet(c, heap, st, name, v) ==
    IF c = "events" THEN FSetDefault(st, PropertyKey(c, name), v)
    ELSE IF c = "EventDispatcher" THEN FSetStore(st, PropertyKey(c, name), v)
    ELSE FSetDelEmpty(heap, st, PropertyKey(c, name), v)

\* fdel that deletes nothing
FDelNothing(c, st, name) == st

\* fdel: the container of the key, if there is one, is deleted
FDel(c, st, name) ==
    IF PropertyKey(c, name) \in DOMAIN st
    THEN Drop(st, PropertyKey(c, name))
    ELSE st

NoPOp == [kind |-> "none", inst |-> "none", attr |-> <<>>, h |-> "none",
          ret |-> Absent, err |-> "none"]

\* the variables no statement on an event property touches
pothers == <<cvars, ivars, tvars, kvars, gvars, avars, uvars>>

\* the instances after __init__: self._events = {} / self.__events = {}
InitProperties ==
    /\ InvokeIdle
    /\ NoThreads
    /\ CollectionsIdle
    /\ AsyncIdle
    /\ DecoratorsIdle
    /\ cls = "Event"
    /\ handlers = <<>>
    /\ order = <<>>
    /\ prev = <<>>
    /\ op = NoOp
    /\ budget = MaxPCalls
    /\ pcls \in PropertyClasses
    /\ pheap = InitialHeap
    /\ pstore = [i \in Instances |-> <<>>]
    /\ pop = NoPOp

\* a statement of the run
PropertyStatement ==
    /\ budget > 0
    /\ budget' = budget - 1
    /\ UNCHANGED <<pothers, pcls>>

\* obj.name
PropertyGet(i, name) ==
    LET g == FGet(pcls, pheap, pstore[i], name) IN
    /\ PropertyStatement
    /\ pheap' = g.heap
    /\ pstore' = [pstore EXCEPT ![i] = g.st]
    /\ pop' = [NoPOp EXCEPT !.kind = "get", !.inst = i, !.attr = name,
                            !.ret = g.ret]

\* obj.name += h: fget, __iadd__ of what it returned, fset of the result
PropertyIAdd(i, name, h) ==
    LET g == FGet(pcls, pheap, pstore[i], name)
        b == ObjIAdd(g.heap, g.ret, h)
        f == FSet(pcls, b.heap, g.st, name, b.ret)
    IN
    /\ PropertyStatement
    /\ pheap' = b.heap
    /\ pstore' = [pstore EXCEPT ![i] = f.st]
    /\ pop' = [NoPOp EXCEPT !.kind = "iadd", !.inst = i, !.attr = name,
                            !.h = h, !.ret = b.ret, !.err = f.err]

\* obj.name -= h: fget, __isub__ of what it returned, fset of the result
PropertyISub(i, name, h) ==
    LET g == FGet(pcls, pheap, pstore[i], name)
        b == ObjISub(g.heap, g.ret, h)
        f == FSet(pcls, b.heap, g.st, name, b.ret)
    IN
    /\ PropertyStatement
    /\ pheap' = b.heap
    /\ pstore' = [pstore EXCEPT ![i] = f.st]
    /\ pop' = [NoPOp EXCEPT !.kind = "isub", !.inst = i, !.attr = name,
                            !.h = h, !.ret = b.ret, !.err = f.err]

\* del obj.name
PropertyDel(i, name) ==
    /\ PropertyStatement
    /\ pheap' = pheap
    /\ pstore' = [pstore EXCEPT ![i] = FDel(pcls, @, name)]
    /\ pop' = [NoPOp EXCEPT !.kind = "del", !.inst = i, !.attr = name]

\* obj.name = v, for a container v that exists
PropertySet(i, name, v) ==
    LET f == FSet(pcls, pheap, pstore[i], name, v) IN
    /\ PropertyStatement
    /\ pheap' = pheap
    /\ pstore' = [pstore EXCEPT ![i] = f.st]
    /\ pop' = [NoPOp EXCEPT !.kind = "set", !.inst = i, !.attr = name,
                            !.ret = v, !.err = f.err]

NextProperties ==
    \E i \in Instances : \E name \in Properties(pcls) :
        \/ PropertyGet(i, name)
        \/ \E h \in PHandlers : PropertyIAdd(i, name, h)
        \/ \E h \in PHandlers : PropertyISub(i, name, h)
        \/ PropertyDel(i, name)
        \/ \E v \in 1..Len(pheap) : PropertySet(i, name, v)

SpecProperties == InitProperties /\ [][NextProperties]_vars

\* the storage of instance i holds a container under the key of the property
HasContainer(i, name) == PropertyKey(pcls, name) \in DOMAIN pstore[i]

\* the step is a read of a property declared as Event that has no container
ReadOfUnset ==
    /\ pop'.kind = "get"
    /\ DeclaredType(pop'.attr) = "Event"
    /\ ~HasContainer(pop'.inst, pop'.attr)

ReadAsClaimed ==
    ReadOfUnset =>
        /\ pop'.ret = EmptyEvent
        /\ pheap'[pop'.ret] = TheEmptyEvent
        /\ pstore' = pstore
        /\ pheap' = pheap

\* C20: a read of an event property declared as the plain Event, on an
\* instance whose storage holds no container for it, returns _empty_event,
\* the same one object for every property, every instance and every such
\* read, and adds no entry to the storage of any instance
C20_ReadOfUnsetPropertyIsTheSentinel == [][ReadAsClaimed]_vars

\* an instance that has no container reads the sentinel as another instance
\* holds a container under the same key
C20_Witness ==
    /\ pop.kind = "get"
    /\ pop.inst = "o2"
    /\ pop.attr = <<"e", "v", "2">>
    /\ pop.ret = EmptyEvent
    /\ DOMAIN pstore["o2"] = {}
    /\ HasContainer("o1", <<"e", "v", "2">>)

\* handler in value: _EmptyEvent answers False, an Event asks its list
ObjContains(heap, id, x) ==
    IF heap[id].kind = "_EmptyEvent" THEN FALSE
    ELSE EventContains(heap[id].hs, x)

\* value(...): the handlers called, which for _EmptyEvent are none
ObjCalls(heap, id) ==
    IF heap[id].kind = "_EmptyEvent" THEN <<>>
    ELSE IterList(Snapshot(heap[id].hs))

\* what a read of the property of instance i returns
Reads(i, name) == FGet(pcls, pheap, pstore[i], name).ret

\* _empty_event has length 0, contains nothing and calls nothing
SentinelIsEmpty ==
    /\ pheap[EmptyEvent] = TheEmptyEvent
    /\ ObjLen(pheap, EmptyEvent) = 0
    /\ \A x \in PHandlers : ~ObjContains(pheap, EmptyEvent, x)
    /\ ObjCalls(pheap, EmptyEvent) = <<>>

\* the step is obj.name += h on a property that reads as the sentinel
SubscribeToSentinel ==
    /\ pop'.kind = "iadd"
    /\ Reads(pop'.inst, pop'.attr) = EmptyEvent

\* a new real container [h] is in the storage under the property
StoredNew(i, name, h) ==
    LET key == PropertyKey(pcls, name)
        st == pstore'[i]
    IN  /\ key \in DOMAIN st
        /\ st[key] # EmptyEvent
        /\ st[key] > Len(pheap)
        /\ pheap'[st[key]] = [kind |-> "Event", hs |-> <<h>>]

SubscribedAsClaimed ==
    SubscribeToSentinel =>
        /\ pop'.err = "none"
        /\ StoredNew(pop'.inst, pop'.attr, pop'.h)

\* C21: obj.name += h on a property that reads as the sentinel stores a new
\* real container whose handlers are [h] under that property, and the
\* sentinel always has length 0, contains nothing and calls nothing
C21_SubscribeReplacesSentinel ==
    /\ [](SentinelIsEmpty)
    /\ [][SubscribedAsClaimed]_vars

\* what a read of the property returns once the step is done
ReadsNext(i, name) == FGet(pcls, pheap', pstore'[i], name).ret

\* the container is a real one, not _empty_event
IsReal(heap, id) == id # EmptyEvent /\ heap[id].kind # "_EmptyEvent"

\* del_empty_event is False
DefaultSettings == pcls # "EventDispatcherDelEmpty"

\* the step is obj.name += h on a property with nothing stored under its key
FirstSubscribe ==
    /\ pop'.kind = "iadd"
    /\ ~HasContainer(pop'.inst, pop'.attr)

\* the step is obj.name -= h on a property whose container holds h alone
LastUnsubscribe ==
    /\ pop'.kind = "isub"
    /\ HasContainer(pop'.inst, pop'.attr)
    /\ LET id == pstore[pop'.inst][PropertyKey(pcls, pop'.attr)] IN
       /\ IsReal(pheap, id)
       /\ pheap[id].hs = <<pop'.h>>

\* the subscribe leaves a real container [h] under the property, and the
\* unsubscribe leaves that container, empty, as what the property reads
CycleAsClaimed ==
    LET i == pop'.inst
        name == pop'.attr
        key == PropertyKey(pcls, pop'.attr)
    IN
    /\ FirstSubscribe =>
          /\ pop'.err = "none"
          /\ key \in DOMAIN pstore'[i]
          /\ IsReal(pheap', pstore'[i][key])
          /\ pheap'[pstore'[i][key]].hs = <<pop'.h>>
    /\ LastUnsubscribe =>
          /\ pop'.err = "none"
          /\ ReadsNext(i, name) = pstore[i][key]
          /\ IsReal(pheap', ReadsNext(i, name))
          /\ ObjLen(pheap', ReadsNext(i, name)) = 0

\* C22: with del_empty_event off, obj.name += h on a property that has no
\* entry followed by obj.name -= h leaves the property reading a real
\* container of length 0, which is not the sentinel
C22_SubscribeThenUnsubscribeLeavesRealEmpty ==
    [][DefaultSettings => CycleAsClaimed]_vars

\* two statements were run, += h1 and -= h1 on event 1 of o1, which now
\* reads the empty container the first of them made
C22_Witness ==
    /\ DefaultSettings
    /\ budget = MaxPCalls - 2
    /\ pop.kind = "isub"
    /\ pop.inst = "o1"
    /\ pop.attr = <<"e", "v", "1">>
    /\ pop.h = "h1"
    /\ Len(pheap) = 2
    /\ IsReal(pheap, Reads("o1", <<"e", "v", "1">>))
    /\ Reads("o1", <<"e", "v", "1">>) = 2
    /\ ObjLen(pheap, 2) = 0

\* the storage of every instance but i is as it was
OthersKeep(i) == \A j \in Instances \ {i} : pstore'[j] = pstore[j]

\* del obj.name on a property in P: the entry under its key is gone and
\* nothing else has changed, nothing is raised, a read returns the sentinel;
\* with no entry to delete nothing changes at all
DeletedAsClaimed(P) ==
    LET i == pop'.inst
        name == pop'.attr
        key == PropertyKey(pcls, pop'.attr)
    IN
    (pop'.kind = "del" /\ name \in P) =>
        /\ pop'.err = "none"
        /\ pheap' = pheap
        /\ OthersKeep(i)
        /\ DOMAIN pstore'[i] = DOMAIN pstore[i] \ {key}
        /\ \A k \in DOMAIN pstore'[i] : pstore'[i][k] = pstore[i][k]
        /\ ReadsNext(i, name) = EmptyEvent
        /\ ~HasContainer(i, name) => pstore' = pstore

\* a property in P that reads as the sentinel goes on reading as the sentinel
\* as long as no statement subscribes or writes
StaysSentinel(P) ==
    \A i \in Instances : \A name \in P :
        (Reads(i, name) = EmptyEvent /\ pop'.kind \notin {"iadd", "set"})
            => ReadsNext(i, name) = EmptyEvent

PlainProperties == {name \in Properties(pcls) : DeclaredType(name) = "Event"}

\* C23 as stated: del obj.name removes the entry of the property, so that
\* reads return the sentinel until the next subscribe, and is a no-op that
\* raises nothing when there is no entry; for every event property
C23_DeleteRevertsToSentinel ==
    [][DeletedAsClaimed(Properties(pcls)) /\ StaysSentinel(Properties(pcls))]_vars

\* C23: the same, for the event properties declared as the plain Event
C23_DeleteRevertsPlainPropertyToSentinel ==
    [][DeletedAsClaimed(PlainProperties) /\ StaysSentinel(PlainProperties)]_vars

\* event 1 of o1 had a container with a handler, was deleted and reads as
\* the sentinel, while o2 kept its container
C23_Witness ==
    /\ pop.kind = "del"
    /\ pop.inst = "o1"
    /\ pop.attr = <<"e", "v", "1">>
    /\ ~HasContainer("o1", <<"e", "v", "1">>)
    /\ Reads("o1", <<"e", "v", "1">>) = EmptyEvent
    /\ Len(pheap) = 3
    /\ HasContainer("o2", <<"e", "v", "1">>)
    /\ budget = MaxPCalls - 3

\* runs in which the properties are read, subscribed to, unsubscribed from
\* and deleted, and never assigned
NextSubscriptions ==
    \E i \in Instances : \E name \in Properties(pcls) :
        \/ PropertyGet(i, name)
        \/ \E h \in PHandlers : PropertyIAdd(i, name, h)
        \/ \E h \in PHandlers : PropertyISub(i, name, h)
        \/ PropertyDel(i, name)

SpecSubscriptions == InitProperties /\ [][NextSubscriptions]_vars

\* the number of handlers of the property: those of its container, or none
HandlerCount(i, name) ==
    IF HasContainer(i, name)
    THEN ObjLen(pheap, pstore[i][PropertyKey(pcls, name)])
    ELSE 0

\* a property in P reads as the sentinel exactly when it has no handlers
SentinelIffEmpty(P) ==
    \A i \in Instances : \A name \in P :
        (Reads(i, name) = EmptyEvent) <=> (HandlerCount(i, name) = 0)

\* obj.name -= h that takes the last handler of a property in P leaves no
\* entry under its key
LastHandlerDeletes(P) ==
    LET i == pop'.inst
        name == pop'.attr
    IN
    (/\ pop'.kind = "isub"
     /\ name \in P
     /\ HandlerCount(i, name) = 1
     /\ ObjContains(pheap, pstore[i][PropertyKey(pcls, name)], pop'.h))
        => PropertyKey(pcls, name) \notin DOMAIN pstore'[i]

DelEmptyEvent == pcls = "EventDispatcherDelEmpty"

\* C24 as stated: with del_empty_event=True, whatever was subscribed and
\* unsubscribed through the properties, every property reads as the sentinel
\* exactly when it has no handlers, and unsubscribing the last handler
\* deletes the entry
C24_DelEmptyReadsSentinelIffNoHandlers ==
    /\ [](DelEmptyEvent => SentinelIffEmpty(Properties(pcls)))
    /\ [][DelEmptyEvent => LastHandlerDeletes(Properties(pcls))]_vars

\* C24: the same, for the properties declared as the plain Event
C24_DelEmptyPlainReadsSentinelIffNoHandlers ==
    /\ [](DelEmptyEvent => SentinelIffEmpty(PlainProperties))
    /\ [][DelEmptyEvent => LastHandlerDeletes(PlainProperties)]_vars

\* h1 was subscribed to event 1 of o1 and unsubscribed again: the container
\* is empty and no longer in the storage
C24_Witness ==
    /\ DelEmptyEvent
    /\ budget = MaxPCalls - 2
    /\ pop.kind = "isub"
    /\ pop.inst = "o1"
    /\ pop.attr = <<"e", "v", "1">>
    /\ Len(pheap) = 2
    /\ pheap[2] = [kind |-> "Event", hs |-> <<>>]
    /\ ~HasContainer("o1", <<"e", "v", "1">>)
    /\ Reads("o1", <<"e", "v", "1">>) = EmptyEvent

\* obj.name = v has put v under the key of the property, nothing was raised
\* and a read returns v; no other entry and no container has changed
WriteStored ==
    LET i == pop'.inst
        key == PropertyKey(pcls, pop'.attr)
    IN
    /\ pop'.err = "none"
    /\ pheap' = pheap
    /\ OthersKeep(i)
    /\ DOMAIN pstore'[i] = DOMAIN pstore[i] \cup {key}
    /\ \A k \in DOMAIN pstore[i] \ {key} : pstore'[i][k] = pstore[i][k]
    /\ pstore'[i][key] = pop'.ret
    /\ ReadsNext(i, pop'.attr) = pop'.ret

\* obj.name = v was refused: AttributeError, and nothing has changed
WriteRefused ==
    /\ pop'.err = "AttributeError"
    /\ pheap' = pheap
    /\ pstore' = pstore

\* obj.name = v with an empty v has left no entry under the key
WriteDeleted ==
    LET i == pop'.inst
        key == PropertyKey(pcls, pop'.attr)
    IN
    /\ pop'.err = "none"
    /\ pheap' = pheap
    /\ OthersKeep(i)
    /\ DOMAIN pstore'[i] = DOMAIN pstore[i] \ {key}
    /\ \A k \in DOMAIN pstore'[i] : pstore'[i][k] = pstore[i][k]

\* what a write does in each kind of class
WriteAsCoded ==
    LET i == pop'.inst
        key == PropertyKey(pcls, pop'.attr)
    IN
    IF pcls = "EventDispatcher" THEN WriteStored
    ELSE IF pcls = "EventDispatcherDelEmpty"
    THEN IF ObjLen(pheap, pop'.ret) # 0 THEN WriteStored ELSE WriteDeleted
    ELSE IF HasContainer(i, pop'.attr) /\ pstore[i][key] # pop'.ret
    THEN WriteRefused
    ELSE WriteStored

\* C25 as stated: obj.name = v stores v, inserting it when the property has
\* no entry and replacing the stored container when it has one, so that the
\* next read returns v
C25_WriteInsertsOrReplaces == [][pop'.kind = "set" => WriteStored]_vars

\* C25: obj.name = v inserts or replaces in a class derived from
\* EventDispatcher, where with del_empty_event an empty v deletes the entry
\* instead; in a class made by @events it inserts v when the property has no
\* entry, accepts the container that is stored, and refuses any other with
\* AttributeError, leaving the entry as it was
C25_WriteInsertsOrReplacesOrIsRefused == [][pop'.kind = "set" => WriteAsCoded]_vars

\* the container made for event 1 of o2 was written to event 1 of o1 in
\* place of the one o1 had, which is now in no storage
C25_Witness ==
    /\ pcls = "EventDispatcher"
    /\ pop.kind = "set"
    /\ pop.inst = "o1"
    /\ pop.ret = 3
    /\ Len(pheap) = 3
    /\ pheap[2].kind = "Event" /\ pheap[3].kind = "Event"
    /\ pstore["o1"] = (DispatcherKey(<<"e", "v", "1">>) :> 3)
    /\ pstore["o2"] = (DispatcherKey(<<"e", "v", "1">>) :> 3)
    /\ Reads("o1", <<"e", "v", "1">>) = 3

\* a class made by @events refuses a container other than the stored one
C25_WitnessRefused ==
    /\ pcls = "events"
    /\ pop.kind = "set"
    /\ pop.err = "AttributeError"
    /\ IsReal(pheap, pop.ret)
    /\ IsReal(pheap, Reads(pop.inst, pop.attr))
    /\ Reads(pop.inst, pop.attr) # pop.ret

(***************************************************************************)
(* AsyncEvent.  Its handlers are asynchronous callables; calling it makes  *)
(* an awaitable, and running the awaitable takes a snapshot of the handler *)
(* list, starts one task per entry in subscription order on the one        *)
(* cooperative scheduler, and resumes the awaiter once every task has      *)
(* settled, with the first recorded failure if there was one.              *)
(***************************************************************************)
AHandlers == {"a1", "a2"}

\* the snapshot the invocation takes before it schedules anything
AsyncSnapshot(hs) == hs

\* one task per entry of the snapshot, none started yet
NewTasks(sn) == [i \in 1..Len(sn) |-> [h |-> sn[i], st |-> "new", exc |-> "none"]]

\* a task that still has to run or to finish
Pending(task) == task.st \in {"new", "started"}

\* the invocation completes without waiting for what is still pending
FirstSettled(tasks) == tasks = <<>> \/ \E i \in 1..Len(tasks) : ~Pending(tasks[i])

\* every task has returned or raised
AllSettled(tasks) == \A i \in 1..Len(tasks) : ~Pending(tasks[i])

\* the scheduler starts the tasks in the order they were created
StartsLast(tasks, i) == \A j \in (i + 1)..Len(tasks) : tasks[j].st # "new"

StartsNext(tasks, i) == \A j \in 1..(i - 1) : tasks[j].st # "new"

\* the tasks still go over the handler list itself
LiveEntries(sn, hs) == hs

\* the tasks of the invocation stay those of the snapshot
TaskEntries(sn, hs) == sn

\* a failure that cancels the tasks still pending
CancelSiblings(tasks, i, e) ==
    [j \in 1..Len(tasks) |->
        IF j = i THEN [tasks[j] EXCEPT !.st = "failed", !.exc = e]
        ELSE IF Pending(tasks[j]) THEN [tasks[j] EXCEPT !.st = "cancelled"]
        ELSE tasks[j]]

\* a task fails: its siblings are left alone
OnFailure(tasks, i, e) == [tasks EXCEPT ![i].st = "failed", ![i].exc = e]

\* the failures of the log, in the order they were recorded
RECURSIVE Failures(_)
Failures(log) ==
    IF log = <<>> THEN <<>>
    ELSE IF Head(log).ev = "fail" THEN <<Head(log)>> \o Failures(Tail(log))
    ELSE Failures(Tail(log))

\* the awaiter always resumes normally
OutcomeSwallowed(log) == [kind |-> "returned", exc |-> "none"]

\* what the awaiter gets: the first recorded failure, if any
Outcome(log) ==
    IF Failures(log) = <<>> THEN [kind |-> "returned", exc |-> "none"]
    ELSE [kind |-> "raised", exc |-> Failures(log)[1].exc]

\* the awaitable starts its tasks as soon as it is made
MadeRunning(sn) == [pc |-> "running", tasks |-> NewTasks(sn)]

\* e(...) only makes the awaitable: nothing is scheduled
MadeAwaitable(sn) == [pc |-> "created", tasks |-> <<>>]

\* the variables no step of an AsyncEvent touches
aothers == <<cvars, ivars, tvars, rvars, kvars, gvars, pvars, uvars>>

InitAsync ==
    /\ InvokeIdle
    /\ NoThreads
    /\ RunIdle
    /\ CollectionsIdle
    /\ PropertiesIdle
    /\ DecoratorsIdle
    /\ cls = "Event"
    /\ handlers = <<>>
    /\ order = <<>>
    /\ prev = <<>>
    /\ op = NoOp
    /\ apc = "idle"
    /\ ahandlers \in SeqsUpTo(AHandlers, MaxALen)
    /\ aargs = NoArgs
    /\ atasks = <<>>
    /\ alog = <<>>
    /\ aresult = NoResult

\* an entry of the log
LogEntry(ev, i, h, a, e, sn) ==
    [ev |-> ev, i |-> i, h |-> h, args |-> a, exc |-> e, sn |-> sn]

\* the handlers of the tasks, in the order the tasks were created
TaskHandlers(tasks) == [i \in 1..Len(tasks) |-> tasks[i].h]

\* coroutine = e(*args, **kwargs)
AsyncCall(a) ==
    LET m == MadeAwaitable(AsyncSnapshot(ahandlers)) IN
    /\ apc = "idle"
    /\ apc' = m.pc
    /\ atasks' = m.tasks
    /\ aargs' = a
    /\ UNCHANGED <<aothers, ahandlers, alog, aresult>>

\* the awaitable is run (asyncio.run(coroutine), or await): the snapshot is
\* taken and one task per entry is created
AsyncRun ==
    /\ apc = "created"
    /\ apc' = "running"
    /\ atasks' = NewTasks(AsyncSnapshot(ahandlers))
    /\ alog' = Append(alog, LogEntry("run", 0, "none", aargs, "none",
                                     AsyncSnapshot(ahandlers)))
    /\ UNCHANGED <<aothers, ahandlers, aargs, aresult>>

\* the scheduler starts task i: its handler is called with the arguments
TaskStart(i) ==
    LET es == TaskEntries(TaskHandlers(atasks), ahandlers) IN
    /\ apc = "running"
    /\ atasks[i].st = "new"
    /\ StartsNext(atasks, i)
    /\ i <= Len(es)
    /\ atasks' = [atasks EXCEPT ![i].st = "started"]
    /\ alog' = Append(alog, LogEntry("call", i, es[i], PassArgs(aargs), "none", <<>>))
    /\ UNCHANGED <<aothers, apc, ahandlers, aargs, aresult>>

\* a running handler subscribes a handler to the event
TaskSubscribe(i, h) ==
    /\ apc = "running"
    /\ atasks[i].st = "started"
    /\ Len(ahandlers) < MaxALen
    /\ ahandlers' = EventIAdd(ahandlers, h)
    /\ UNCHANGED <<aothers, apc, aargs, atasks, alog, aresult>>

\* a running handler unsubscribes a handler from the event
TaskUnsubscribe(i, h) ==
    /\ apc = "running"
    /\ atasks[i].st = "started"
    /\ ahandlers' = Deleted(ahandlers, EventISub(ahandlers, h).at)
    /\ UNCHANGED <<aothers, apc, aargs, atasks, alog, aresult>>

\* the handler of task i returns
TaskReturn(i) ==
    /\ apc = "running"
    /\ atasks[i].st = "started"
    /\ atasks' = [atasks EXCEPT ![i].st = "done"]
    /\ alog' = Append(alog, LogEntry("done", i, atasks[i].h, NoArgs, "none", <<>>))
    /\ UNCHANGED <<aothers, apc, ahandlers, aargs, aresult>>

\* the handler of task i raises e
TaskRaise(i, e) ==
    /\ apc = "running"
    /\ atasks[i].st = "started"
    /\ atasks' = OnFailure(atasks, i, e)
    /\ alog' = Append(alog, LogEntry("fail", i, atasks[i].h, NoArgs, e, <<>>))
    /\ UNCHANGED <<aothers, apc, ahandlers, aargs, aresult>>

\* every task has settled: the awaiter resumes
AsyncComplete ==
    /\ apc = "running"
    /\ AllSettled(atasks)
    /\ apc' = "done"
    /\ aresult' = Outcome(alog)
    /\ UNCHANGED <<aothers, ahandlers, aargs, atasks, alog>>

NextAsync ==
    \/ \E a \in ArgSet : AsyncCall(a)
    \/ AsyncRun
    \/ AsyncComplete
    \/ \E i \in 1..Len(atasks) :
        \/ TaskStart(i)
        \/ \E h \in AHandlers : TaskSubscribe(i, h)
        \/ \E h \in AHandlers : TaskUnsubscribe(i, h)
        \/ TaskReturn(i)
        \/ \E e \in Excs : TaskRaise(i, e)

SpecAsync == InitAsync /\ [][NextAsync]_vars

\* the places of the log entries of kind ev
Where(ev) == {k \in 1..Len(alog) : alog[k].ev = ev}

\* the places of the log entries of kind ev of task i
WhereOf(ev, i) == {k \in Where(ev) : alog[k].i = i}

\* the awaiter has resumed
AsyncDone == apc = "done"

\* C26: the awaited invocation of an AsyncEvent returns or raises only once
\* every handler task it started has returned or raised: when the awaiter
\* has resumed no task is waiting to start or still running
C26_CompletesAfterEveryTask ==
    AsyncDone =>
        \A i \in 1..Len(atasks) :
            /\ atasks[i].st \in {"done", "failed"}
            /\ WhereOf("call", i) # {}
            /\ WhereOf("done", i) \cup WhereOf("fail", i) # {}

\* two tasks were started and the second returned before the first
C26_Witness ==
    /\ AsyncDone
    /\ Len(atasks) = 2
    /\ aresult.kind = "returned"
    /\ \E k \in WhereOf("done", 2) : \E l \in WhereOf("done", 1) : k < l

\* C27: when handler tasks fail no task is cancelled, every other task has
\* run to its end by the time the awaiter gets the failure, and the failure
\* it gets is the first one a handler raised
C27_FailureAfterAllSiblings ==
    /\ \A i \in 1..Len(atasks) : atasks[i].st # "cancelled"
    /\ (AsyncDone /\ Where("fail") # {}) =>
        /\ aresult.kind = "raised"
        /\ \E k \in Where("fail") :
              /\ \A l \in Where("fail") : k <= l
              /\ aresult.exc = alog[k].exc
        /\ \A i \in 1..Len(atasks) :
              WhereOf("fail", i) = {} => WhereOf("done", i) # {}
    /\ (AsyncDone /\ aresult.kind = "raised") => Where("fail") # {}

\* the first task raised ValueError, the second returned after that, and
\* the awaiter got ValueError
C27_Witness ==
    /\ AsyncDone
    /\ Len(atasks) = 2
    /\ atasks[1].st = "failed" /\ atasks[1].exc = "ValueError"
    /\ atasks[2].st = "done"
    /\ \E k \in WhereOf("fail", 1) : \E l \in WhereOf("done", 2) : k < l
    /\ aresult = [kind |-> "raised", exc |-> "ValueError"]

\* the log entries of kind ev, in order
RECURSIVE Entries(_, _)
Entries(log, ev) ==
    IF log = <<>> THEN <<>>
    ELSE IF Head(log).ev = ev THEN <<Head(log)>> \o Entries(Tail(log), ev)
    ELSE Entries(Tail(log), ev)

\* the handler list when the awaitable was run
RunSnapshot == alog[CHOOSE k \in Where("run") : TRUE].sn

\* C28: the tasks of an invocation are those of the handler list as it was
\* when the invocation began, started in subscription order: the k-th call
\* is of the k-th entry of that list, whatever the running tasks subscribe
\* or unsubscribe meanwhile, and once the awaiter has resumed every entry
\* was called; the order in which the tasks finish is free
C28_LaunchedInOrderOverSnapshot ==
    apc \in {"running", "done"} =>
        LET started == Entries(alog, "call") IN
        /\ TaskHandlers(atasks) = RunSnapshot
        /\ Len(started) <= Len(RunSnapshot)
        /\ \A k \in 1..Len(started) :
              /\ started[k].i = k
              /\ started[k].h = RunSnapshot[k]
        /\ AsyncDone => Len(started) = Len(RunSnapshot)

\* the invocation of [a1, a2] is over: a1 was called before a2, a2 finished
\* before a1, and the handler list has meanwhile become [a2, a2]
C28_Witness ==
    /\ AsyncDone
    /\ RunSnapshot = <<"a1", "a2">>
    /\ ahandlers = <<"a2", "a2">>
    /\ \E k \in WhereOf("done", 2) : \E l \in WhereOf("done", 1) : k < l

\* C29: e(...) only makes an awaitable: no handler is called before the
\* awaitable is run, and when it has run to its end every entry of the
\* handler list was called exactly once, with the arguments given to e(...)
C29_NothingRunsUntilAwaited ==
    /\ apc = "created" => atasks = <<>> /\ alog = <<>>
    /\ \A k \in Where("call") : \E r \in Where("run") : r < k
    /\ AsyncDone =>
          /\ Where("run") # {}
          /\ \A i \in 1..Len(RunSnapshot) :
              /\ Cardinality(WhereOf("call", i)) = 1
              /\ \A k \in WhereOf("call", i) :
                    /\ alog[k].h = RunSnapshot[i]
                    /\ alog[k].args = aargs
                    /\ aargs \in ArgSet

\* the awaitable of an event with two handlers exists and nothing was called
C29_WitnessCreated ==
    /\ apc = "created"
    /\ Len(ahandlers) = 2
    /\ aargs.kw # {}
    /\ alog = <<>>

\* the awaitable has run to its end and both handlers were called with the
\* positional and keyword arguments of the call
C29_Witness ==
    /\ AsyncDone
    /\ Len(RunSnapshot) = 2
    /\ aargs.kw # {}
    /\ Cardinality(Where("call")) = 2
    /\ \A k \in Where("call") : alog[k].args = aargs

\* the value a read of the property gives: which container it is, or that it
\* is one made for this read, and the handlers it has
ReadValue(heap, st, name) ==
    LET g == FGet(pcls, heap, st, name) IN
    IF g.ret > Len(heap)
    THEN [id |-> Absent, made |-> TRUE, obj |-> g.heap[g.ret]]
    ELSE [id |-> g.ret, made |-> FALSE, obj |-> g.heap[g.ret]]

\* the step subscribes to, unsubscribes from or deletes a property
ChangesProperty == pop'.kind \in {"iadd", "isub", "del"}

\* every other property of the instance reads as it did before the step
OtherPropertiesKeep ==
    \A name \in Properties(pcls) \ {pop'.attr} :
        ReadValue(pheap', pstore'[pop'.inst], name)
            = ReadValue(pheap, pstore[pop'.inst], name)

\* C30: obj.A += h, obj.A -= h and del obj.A leave the value read from every
\* other event property B of the same instance as it was; a B that was never
\* subscribed to still reads as the sentinel
C30_PropertiesAreIndependent == [][ChangesProperty => OtherPropertiesKeep]_vars

\* the property of the step reads, once the step is done, as a real container
\* whose last entry is h
ReadsRealEndingWith(h) ==
    LET id == ReadsNext(pop'.inst, pop'.attr) IN
    /\ id \in 1..Len(pheap')
    /\ IsReal(pheap', id)
    /\ Length(pheap'[id].hs) > 0
    /\ pheap'[id].hs[Length(pheap'[id].hs)] = h

SubscribeSucceeds ==
    pop'.kind = "iadd" =>
        /\ pop'.err = "none"
        /\ ReadsRealEndingWith(pop'.h)

\* C31: after any sequence of obj.name += h, obj.name -= h and del obj.name
\* (an unsubscribe of a property that still reads as the sentinel among
\* them), obj.name += h raises nothing and the property then reads as a real
\* container whose last entry is h
C31_SubscribeAlwaysSucceeds == [][SubscribeSucceeds]_vars

\* the step is obj.name = v in a class made by @events(properties=True),
\* where the storage holds, under the key of the property, another object
AssignsAnother ==
    /\ pop'.kind = "set"
    /\ pcls = "events"
    /\ HasContainer(pop'.inst, pop'.attr)
    /\ pstore[pop'.inst][PropertyKey(pcls, pop'.attr)] # pop'.ret

AssignmentRefused ==
    AssignsAnother =>
        /\ pop'.err = "AttributeError"
        /\ pstore' = pstore
        /\ pheap' = pheap

\* C32: with @events(properties=True), obj.name = v for a container v that
\* is not the object stored under the property raises AttributeError and
\* leaves the stored container and every other entry of the storage as
\* they were
C32_AssignmentOfAnotherContainerIsRefused == [][AssignmentRefused]_vars

\* a refused assignment on an instance that holds a second entry, which is
\* still there
C32_Witness ==
    /\ pcls = "events"
    /\ pop.kind = "set"
    /\ pop.err = "AttributeError"
    /\ DOMAIN pstore[pop.inst] = {<<"e">>, <<"f">>}
    /\ pstore[pop.inst][PropertyKey(pcls, pop.attr)] # pop.ret
    /\ IsReal(pheap, pstore[pop.inst][PropertyKey(pcls, pop.attr)])

(***************************************************************************)
(* Claims about the locks of the concurrent collections (SpecReentrant).   *)
(***************************************************************************)
\* the statements between the collection's acquire() and its release(): the
\* lookup, the creation of the container and the release itself
DecisionPcs == {"ah_get", "ah_new", "ah_rel_new", "ah_rel", "get", "get_rel"}

\* thread t has no call under way, not even one a handler of its would
\* go back to
AtRest(t) == ktpc[t] = "idle" /\ kstack[t] = <<>>

\* the collection's lock is held by a thread only in the decision window:
\* not after a call has ended, not while a handler runs, not while a
\* container's lock or the collection's own lock is awaited
HeldInDecisionOnly ==
    \A t \in KThreads :
        clock = t => /\ ktpc[t] \in DecisionPcs
                     /\ kcls = "ConcurrentEventHandlerList" =>
                            ktpc[t] \notin {"get", "get_rel"}

\* every call a thread has started comes to its end
CallsTerminate == \A t \in Threads : (~AtRest(t)) ~> AtRest(t)

\* C33: the concurrent collections hold their lock only across the
\* lookup-then-create decision (it is free once add_handler is over, while
\* a handler runs and while a container's lock is awaited, and no call
\* acquires it a second time), so that every interleaving of add_handler,
\* remove_handler, lookup and invoke of several threads, handlers that call
\* the collection included, terminates
C33_CollectionLockHeldInDecisionOnly ==
    /\ [](HeldInDecisionOnly)
    /\ CallsTerminate

(***************************************************************************)
(* Claims about the copy a VolatileEvent invocation takes                  *)
(* (SpecVolatileCopy).                                                     *)
(***************************************************************************)
\* while thread t copies, its copy is the front of the list as it is now
CopyIsFront(t) ==
    /\ frame[t].i <= Len(handlers)
    /\ frame[t].snap = SubSeq(handlers, 1, frame[t].i)

\* the copy of thread t is complete and the lock not yet released: the copy
\* is the whole list as it is now
CopyIsWhole(t) == frame[t].snap = handlers

\* C34: the list a VolatileEvent invocation calls is a point-in-time
\* snapshot: all through the copy under the lock the copy is the front of
\* the one list the container holds, and when the copy ends it is that
\* whole list, never a mixture of the lists before and after a += or -=
\* of another thread
C34_SnapshotIsPointInTime ==
    \A t \in Threads :
        /\ tpc[t] = "call_iter" => CopyIsFront(t)
        /\ tpc[t] = "call_rel" => CopyIsWhole(t)

\* a thread is half way through the copy of a list of two entries while the
\* other thread waits for the lock with a += or -=
C34_Witness ==
    /\ tpc["t1"] = "call_iter"
    /\ frame["t1"].i = 1
    /\ Len(handlers) = 2
    /\ tpc["t2"] \in {"add_acq", "sub_acq"}

\* the copy is complete, the other thread still waits
C34_WitnessWhole ==
    /\ tpc["t1"] = "call_rel"
    /\ Len(frame["t1"].snap) = 2
    /\ tpc["t2"] = "sub_acq"

(***************************************************************************)
(* Claims about the lock-free lookup of ConcurrentEventHandlerList         *)
(* (SpecLookups).                                                          *)
(***************************************************************************)
\* the lookup found nothing, or the one container the list holds for the
\* key, which had its first handler when the lookup returned
AbsentOrTheContainer(f) ==
    \/ f.ret = Absent
    \/ /\ f.n >= 1
       /\ \E i \in 1..Len(elist) :
              /\ elist[i].ev = f.ret
              /\ KeyValue(elist[i].key) = f.key
              /\ \A j \in 1..Len(elist) :
                     KeyValue(elist[j].key) = f.key => j = i

\* a lookup that comes after one that found a container finds the same one
FoundForGood ==
    \A i, j \in 1..Len(kop) :
        (i < j /\ kop[i].key = kop[j].key /\ kop[i].ret # Absent)
            => kop[j].ret = kop[i].ret

\* C35: a lookup on a ConcurrentEventHandlerList, which takes no lock,
\* returns while add_handler calls are under way either None or the single
\* container of the key, complete and holding its first handler, and once
\* a lookup has returned a container for a key every later lookup of the
\* key returns that container
C35_LockFreeLookupSeesWholeContainers ==
    /\ \A i \in 1..Len(kop) : AbsentOrTheContainer(kop[i])
    /\ FoundForGood

\* a lookup found nothing while the add_handler that creates the container
\* held the lock, and the next lookup of the key found the container
C35_Witness ==
    /\ Len(kop) = 2
    /\ kop[1].key = kop[2].key
    /\ kop[1].ret = Absent
    /\ kop[2].ret # Absent
    /\ kop[2].n = 1

(***************************************************************************)
(* Event properties of the events package.  `event` is a data descriptor:  *)
(* obj.ev += h reads the descriptor (__get__ returns the descriptor        *)
(* itself), calls its __iadd__ and assigns the result back, which calls    *)
(* __set__.  TestClass declares its properties with @event and accessors   *)
(* that only record their calls; Publisher is decorated with @events and   *)
(* keeps an EventHandlerList in self._ev; SubPublisher derives from        *)
(* Publisher and is decorated with @events too.                            *)
(***************************************************************************)
DecoratedClasses == {"TestClass", "Publisher", "SubPublisher"}

\* the class a class derives from
BaseOf(c) == IF c = "SubPublisher" THEN "Publisher" ELSE "none"

\* the annotations of type event in the body of the class (for TestClass:
\* the definitions decorated with @event)
Annotated(c) ==
    IF c = "TestClass" THEN {"event1", "event2"}
    ELSE IF c = "Publisher" THEN {"e1", "e2"}
    ELSE IF c = "SubPublisher" THEN {"e3"}
    ELSE {}

\* get_type_hints(cls): the annotations of the class and of its bases
RECURSIVE TypeHints(_)
TypeHints(c) ==
    IF c = "none" THEN {} ELSE Annotated(c) \cup TypeHints(BaseOf(c))

\* name: event[...] = event_key(key) in the body of the class
EventKeyOf(c, name) ==
    IF c = "Publisher" /\ name = "e2" THEN "K" ELSE "none"

\* the descriptor object setattr(cls, name, event_type(...)) has put in a
\* decorated class
DescriptorOf(c, name) ==
    IF name = "e1" THEN "Publisher.e1" ELSE "Publisher.e2"

\* getattr(cls, name, default) when @events decorates cls: the value given
\* in the body of the class, the attribute inherited from a base, which is
\* the descriptor the base's decoration has set, or the default
GetAttr(c, name, default) ==
    IF EventKeyOf(c, name) # "none" THEN EventKeyOf(c, name)
    ELSE IF name \in TypeHints(BaseOf(c)) THEN DescriptorOf(BaseOf(c), name)
    ELSE default

\* the key _properties gives the accessors of a property: f(getattr(cls, name, name))
AccessorKey(c, name) == GetAttr(c, name, name)

\* event.__get__
DescGet(d) == d

\* event.__iadd__
DescIAdd(h) == <<h, TRUE>>

\* event.__isub__
DescISub(h) == <<h, FALSE>>

\* event.__set__ that calls the add accessor whatever the tuple says
DescSetAdds(value) == "add"

\* event.__set__: the accessor it calls
DescSet(value) == IF value[2] THEN "add" ELSE "remove"

\* the add accessor @events generates: self.<collection>.add_handler(key, value)
AddAccessor(es, key, h) == ListAddHandler(es, key, h)

\* the remove accessor: self.<collection>.remove_handler(key, value)
RemoveAccessor(es, key, h) == RemoveHandler(es, ListGetItem(es, key), h)

\* what the accessor of a property of class c does to the collection of the
\* instance; the accessors of TestClass record the call and do nothing
Accessor(c, acc, es, name, h) ==
    IF c = "TestClass" THEN es
    ELSE IF acc = "add" THEN AddAccessor(es, AccessorKey(c, name), h)
    ELSE RemoveAccessor(es, AccessorKey(c, name), h)

NoDOp == [kind |-> "none", inst |-> "none", attr |-> "none", h |-> "none"]

\* the variables no statement on these properties touches
dothers == <<cvars, ivars, tvars, kvars, gvars, pvars, avars, fvars>>

\* the instances after __init__, which has set self._ev = EventHandlerList()
InitDescriptors ==
    /\ InvokeIdle
    /\ NoThreads
    /\ CollectionsIdle
    /\ PropertiesIdle
    /\ AsyncIdle
    /\ cls = "Event"
    /\ handlers = <<>>
    /\ order = <<>>
    /\ prev = <<>>
    /\ op = NoOp
    /\ budget = MaxDCalls
    /\ dcls \in DecoratedClasses
    /\ dcoll = [i \in Instances |-> <<>>]
    /\ dlog = <<>>
    /\ dop = NoDOp
    /\ fcfg = <<>>
    /\ fheap = <<>>
    /\ fobjs = <<>>

\* the descriptor protocol of obj.name += h and obj.name -= h: value is what
\* __iadd__ or __isub__ of the descriptor returned, __set__ takes it apart
\* and calls the accessor with (obj, handler)
DescriptorStatement(i, name, kind, value) ==
    LET acc == DescSet(value) IN
    /\ budget > 0
    /\ budget' = budget - 1
    /\ dlog' = Append(dlog, [attr |-> DescGet(name), acc |-> acc, inst |-> i,
                             h |-> value[1]])
    /\ dcoll' = [dcoll EXCEPT ![i] = Accessor(dcls, acc, @, DescGet(name),
                                              value[1])]
    /\ dop' = [kind |-> kind, inst |-> i, attr |-> name, h |-> value[1]]
    /\ UNCHANGED <<dothers, dcls>>

\* obj.name += h
DescriptorIAdd(i, name, h) == DescriptorStatement(i, name, "iadd", DescIAdd(h))

\* obj.name -= h
DescriptorISub(i, name, h) == DescriptorStatement(i, name, "isub", DescISub(h))

NextDescriptors ==
    \E i \in Instances : \E name \in TypeHints(dcls) : \E h \in PHandlers :
        \/ DescriptorIAdd(i, name, h)
        \/ DescriptorISub(i, name, h)

SpecDescriptors == InitDescriptors /\ [][NextDescriptors]_vars

(***************************************************************************)
(* Claims about the event descriptor and the properties @events generates  *)
(* (SpecDescriptors).                                                      *)
(***************************************************************************)
\* the call of an accessor the statement of the step stands for
CallOf(acc) == [attr |-> dop'.attr, acc |-> acc, inst |-> dop'.inst, h |-> dop'.h]

\* the step calls the accessor of its property once, and no other accessor
CallsOnce(acc) == dlog' = Append(dlog, CallOf(acc))

StatementCallsItsAccessor ==
    /\ dop'.kind = "iadd" => CallsOnce("add")
    /\ dop'.kind = "isub" => CallsOnce("remove")

\* C36: for a property declared with the event descriptor, obj.ev += h
\* calls the add accessor exactly once with (obj, h) and never the remove
\* accessor, obj.ev -= h calls the remove accessor exactly once with
\* (obj, h) and never the add accessor, and no accessor is called before
\* the first such statement
C36_StatementCallsItsAccessorOnce ==
    /\ [](dop.kind = "none" => dlog = <<>>)
    /\ [][StatementCallsItsAccessor]_vars

\* a += and a -= with the same handler on one instance of TestClass: one
\* call of add, then one call of remove
C36_Witness ==
    /\ dcls = "TestClass"
    /\ Len(dlog) = 2
    /\ dlog[1] = [attr |-> "event1", acc |-> "add", inst |-> "o1", h |-> "h1"]
    /\ dlog[2] = [attr |-> "event1", acc |-> "remove", inst |-> "o1", h |-> "h1"]

\* the key a property is declared with: the object given through event_key
\* where the property is annotated, or else the attribute name
RECURSIVE DeclaredKey(_, _)
DeclaredKey(c, name) ==
    IF EventKeyOf(c, name) # "none" THEN EventKeyOf(c, name)
    ELSE IF name \in TypeHints(BaseOf(c)) THEN DeclaredKey(BaseOf(c), name)
    ELSE name

\* the container the collection holds for a key, and its handlers
ContainerOf(es, key) ==
    LET e == ListGetItem(es, key) IN
    IF e = Absent THEN [ev |-> Absent, hs |-> <<>>]
    ELSE [ev |-> e, hs |-> es[EntryOf(es, e)].hs]

\* the statement of the step is passed on to the collection of its instance
\* with the key the property is declared with
ForwardedWithOwnKey ==
    LET es == dcoll[dop'.inst]
        key == DeclaredKey(dcls, dop'.attr)
    IN  /\ dop'.kind = "iadd" =>
               dcoll'[dop'.inst] = ListAddHandler(es, key, dop'.h)
        /\ dop'.kind = "isub" =>
               dcoll'[dop'.inst] = RemoveHandler(es, ListGetItem(es, key), dop'.h)

\* the containers of the other declared properties, and the collections of
\* the other instances, are what they were
OtherContainersKeep ==
    /\ \A name \in TypeHints(dcls) \ {dop'.attr} :
           ContainerOf(dcoll'[dop'.inst], DeclaredKey(dcls, name))
               = ContainerOf(dcoll[dop'.inst], DeclaredKey(dcls, name))
    /\ \A j \in Instances \ {dop'.inst} : dcoll'[j] = dcoll[j]

GeneratedByEvents == dcls \in {"Publisher", "SubPublisher"}

\* C37: a property that @events generates passes += and -= on to
\* add_handler and remove_handler of the instance's collection with the
\* property's own key, the attribute name or the object given through
\* event_key, and so creates or changes the container of that key only:
\* the containers of the other declared properties stay absent or as they
\* were
C37_PropertyForwardsWithOwnKey ==
    [][GeneratedByEvents => (ForwardedWithOwnKey /\ OtherContainersKeep)]_vars

(***************************************************************************)
(* Event fields.  @events gives a class whose annotations name fields of   *)
(* type Event a generated __init__ that binds every such field to a new    *)
(* Event().  TestClass1 declares event1; TestClass2 extends TestClass1,    *)
(* declares event2 and is decorated as well.  fcfg says which package      *)
(* decorated the classes, which of them define an __init__ of their own,   *)
(* and whether the one of TestClass2 calls super().__init__().             *)
(***************************************************************************)
FieldClasses == {"TestClass1", "TestClass2"}

Fields == {"event1", "event2"}

Packages == {"events", "cs_events"}

FieldBaseOf(c) == IF c = "TestClass2" THEN "TestClass1" ELSE "object"

\* get_type_hints(cls): the annotations of the bases first, then the class's
FieldHints(c) ==
    IF c = "TestClass1" THEN <<"event1">> ELSE <<"event1", "event2">>

\* "__init__" in cls.__dict__ before the decoration
HasOwnInit(cfg, c) == c \in cfg.own

\* the field assignments of the generated __init__ of c, in order
Assignments(c) ==
    [n \in 1..Len(FieldHints(c)) |->
        [op |-> "assign", cls |-> c, field |-> FieldHints(c)[n]]]

RECURSIVE OwnInit(_, _)
RECURSIVE OrigInit(_, _)
RECURSIVE FieldsInit(_, _)
RECURSIVE CreateInit(_, _)

\* what c.__init__ does once c is decorated
Generated(cfg, c) ==
    IF c = "object" THEN <<>>
    ELSE IF cfg.pkg = "events" THEN FieldsInit(cfg, c)
    ELSE CreateInit(cfg, c)

\* the __init__ the class defines: its body, which may call
\* super().__init__(), the __init__ of the decorated base
OwnInit(cfg, c) ==
    <<[op |-> "init", cls |-> c, field |-> "none"]>>
        \o (IF cfg.super THEN Generated(cfg, FieldBaseOf(c)) ELSE <<>>)

\* cls.__init__ as the decorator finds it: the class's own or the inherited
OrigInit(cfg, c) ==
    IF HasOwnInit(cfg, c) THEN OwnInit(cfg, c)
    ELSE Generated(cfg, FieldBaseOf(c))

\* the __init__ that _fields of the events package generates
FieldsInit(cfg, c) == OrigInit(cfg, c) \o Assignments(c)

\* the __init__ that _create_init of cs_events generates
CreateInit(cfg, c) ==
    IF HasOwnInit(cfg, c) THEN Assignments(c) \o OwnInit(cfg, c)
    ELSE Generated(cfg, FieldBaseOf(c)) \o Assignments(c)

\* self.name = Event() binding the field to a container that exists already
AssignFieldShared(st, c, name) ==
    LET id == IF Len(st.heap) > 0 THEN Len(st.heap) ELSE 1 IN
    [heap |-> IF Len(st.heap) > 0 THEN st.heap ELSE <<<<>>>>,
     attrs |-> [st.attrs EXCEPT ![name] = id],
     trace |-> Append(st.trace, [op |-> "assign", cls |-> c, field |-> name,
                                 id |-> id])]

\* self.name = Event(): a new container, empty, bound to the field
AssignField(st, c, name) ==
    LET id == Len(st.heap) + 1 IN
    [heap |-> Append(st.heap, <<>>),
     attrs |-> [st.attrs EXCEPT ![name] = id],
     trace |-> Append(st.trace, [op |-> "assign", cls |-> c, field |-> name,
                                 id |-> id])]

\* the body of an __init__ a class defines; it is recorded, nothing more
CallInit(st, c) ==
    [st EXCEPT !.trace = Append(@, [op |-> "init", cls |-> c,
                                    field |-> "none", id |-> 0])]

\* the statements of an __init__, run one after the other
RECURSIVE RunInit(_, _)
RunInit(steps, st) ==
    IF steps = <<>> THEN st
    ELSE LET s == Head(steps) IN
         RunInit(Tail(steps),
                 IF s.op = "assign" THEN AssignField(st, s.cls, s.field)
                 ELSE CallInit(st, s.cls))

\* the handlers subscribed to all containers
RECURSIVE Subscribed(_)
Subscribed(heap) ==
    IF heap = <<>> THEN 0 ELSE Len(Head(heap)) + Subscribed(Tail(heap))

fothers == <<cvars, ivars, tvars, rvars, kvars, gvars, pvars, avars, dvars>>

\* the classes are decorated, no instance exists
InitFields ==
    /\ InvokeIdle
    /\ NoThreads
    /\ CollectionsIdle
    /\ PropertiesIdle
    /\ AsyncIdle
    /\ cls = "Event"
    /\ handlers = <<>>
    /\ order = <<>>
    /\ prev = <<>>
    /\ op = NoOp
    /\ budget = 0
    /\ dcls = "none"
    /\ dcoll = <<>>
    /\ dlog = <<>>
    /\ dop = <<>>
    /\ fcfg \in [pkg : Packages, own : SUBSET FieldClasses, super : BOOLEAN]
    /\ fheap = <<>>
    /\ fobjs = <<>>

\* obj = c()
ConstructInstance(c) ==
    LET st == RunInit(Generated(fcfg, c),
                      [heap |-> fheap, attrs |-> [f \in Fields |-> 0],
                       trace |-> <<>>])
    IN  /\ Len(fobjs) < MaxObjs
        /\ fheap' = st.heap
        /\ fobjs' = Append(fobjs, [cls |-> c, attrs |-> st.attrs,
                                   trace |-> st.trace])
        /\ UNCHANGED <<fothers, fcfg>>

\* obj.name += h on an event field
FieldSubscribe(o, name, h) ==
    /\ fobjs[o].attrs[name] # 0
    /\ Subscribed(fheap) < MaxFSubs
    /\ fheap' = [fheap EXCEPT ![fobjs[o].attrs[name]] = Append(@, h)]
    /\ UNCHANGED <<fothers, fcfg, fobjs>>

NextFields ==
    \/ \E c \in FieldClasses : ConstructInstance(c)
    \/ \E o \in DOMAIN fobjs : \E name \in Fields : \E h \in PHandlers :
           FieldSubscribe(o, name, h)

SpecFields == InitFields /\ [][NextFields]_vars

\* the class whose own __init__ is cls.__init__ when c is decorated: the
\* original __init__ of c
OriginalInit(cfg, c) ==
    IF HasOwnInit(cfg, c) THEN c
    ELSE IF HasOwnInit(cfg, FieldBaseOf(c)) THEN FieldBaseOf(c)
    ELSE "none"

\* where in a construction the __init__ that class c defines ran
InitsOf(tr, c) == {n \in DOMAIN tr : tr[n].op = "init" /\ tr[n].cls = c}

\* where in a construction the generated __init__ of c assigned its fields
AssignsOf(tr, c) == {n \in DOMAIN tr : tr[n].op = "assign" /\ tr[n].cls = c}

\* the fields of an instance that are bound
BoundFields(o) == {f \in Fields : fobjs[o].attrs[f] # 0}

\* the construction of every instance ran the original __init__ once
OriginalInitRanOnce ==
    \A o \in DOMAIN fobjs :
        LET oc == OriginalInit(fcfg, fobjs[o].cls) IN
        oc # "none" => Cardinality(InitsOf(fobjs[o].trace, oc)) = 1

\* no container is bound to two fields, of one instance or of two
FieldsNotShared ==
    \A o1, o2 \in DOMAIN fobjs :
        \A f1 \in BoundFields(o1) : \A f2 \in BoundFields(o2) :
            fobjs[o1].attrs[f1] = fobjs[o2].attrs[f2] => (o1 = o2 /\ f1 = f2)

\* a step that constructs an instance leaves every annotated field of every
\* level of it bound to a container that did not exist before and is empty
\* (stated of the step: FieldSubscribe fills the containers afterwards)
FieldsBoundToNewEmpty ==
    Len(fobjs') = Len(fobjs) + 1 =>
        LET new == fobjs'[Len(fobjs')] IN
        \A n \in DOMAIN FieldHints(new.cls) :
            LET id == new.attrs[FieldHints(new.cls)[n]] IN
            /\ id > Len(fheap)
            /\ id \in DOMAIN fheap'
            /\ fheap'[id] = <<>>

\* the original __init__ ran before every field assignment of the generated
\* __init__ of the instance's class
OriginalInitFirst ==
    \A o \in DOMAIN fobjs :
        LET c == fobjs[o].cls
            tr == fobjs[o].trace
        IN  \A i \in InitsOf(tr, OriginalInit(fcfg, c)) :
                \A a \in AssignsOf(tr, c) : i < a

\* as OriginalInitFirst, but for an __init__ that a class decorated by
\* cs_events defines itself: that one ran after the field assignments
OriginalInitPlaced ==
    \A o \in DOMAIN fobjs :
        LET c == fobjs[o].cls
            tr == fobjs[o].trace
        IN  \A i \in InitsOf(tr, OriginalInit(fcfg, c)) :
                \A a \in AssignsOf(tr, c) :
                    IF fcfg.pkg = "cs_events" /\ HasOwnInit(fcfg, c)
                    THEN a < i ELSE i < a

\* C38 as stated: constructing an instance of a class decorated with
\* @events runs the class's original __init__ exactly once, also for a
\* decorated subclass of a decorated base, and leaves every annotated event
\* field of every level bound to a new empty container no other instance
\* shares; the original __init__ runs before the field assignments
C38_ConstructionRunsInitThenBindsFields ==
    /\ [](OriginalInitRanOnce /\ FieldsNotShared /\ OriginalInitFirst)
    /\ [][FieldsBoundToNewEmpty]_vars

\* C38 amended: the same, except that the order depends on the package: the
\* events package runs the original __init__ before the field assignments,
\* cs_events runs an __init__ the class defines itself after them and an
\* inherited one before them
C38_ConstructionRunsInitOnceAndBindsFields ==
    /\ [](OriginalInitRanOnce /\ FieldsNotShared /\ OriginalInitPlaced)
    /\ [][FieldsBoundToNewEmpty]_vars

\* two instances of the decorated subclass of a decorated base, both with
\* an __init__ of their own, constructed by cs_events, one with a handler
C38_Witness ==
    /\ fcfg = [pkg |-> "cs_events", own |-> FieldClasses, super |-> TRUE]
    /\ Len(fobjs) = 2
    /\ \A o \in DOMAIN fobjs : fobjs[o].cls = "TestClass2"
    /\ fheap[fobjs[1].attrs["event1"]] # <<>>
    /\ fheap[fobjs[2].attrs["event1"]] = <<>>
====
